---------------------------- MODULE Spec2Model ----------------------------
(***************************************************************************)
(* A model of codegen-resolvers: the generator that reads a GraphQL schema *)
(* and writes Flow resolver types and implementation scaffolds.            *)
(*                                                                         *)
(*   part 1  type-reference rendering (graphql-dispatch.js, the two        *)
(*           toFlow*TypeRef renderers, nonOptional)                        *)
(***************************************************************************)
EXTENDS Integers, Sequences, FiniteSets, TLC

VARIABLES
    rNode,      \* the type node handed to a renderer
    rPos,       \* "none" before the call, then "out" or "in": the renderer called
    rOut,       \* what the call produced: a JavaScript value or a thrown error
    dispatchers, \* the handlers supplied to the dispatch function
    schema,     \* the schema handed to the synthesizer: its type map, in key order
    sStep,      \* "init", then "index" or "shape": the function applied to it
    typeIndex,  \* the result of namedTypesFromSchema
    shapeOf,    \* the name of the type toResolverTypeDefinition was applied to
    shape,      \* its result: the lines of the definition, or a thrown error
    runSchema,  \* the schema the generator runs on
    fs,         \* the files under the schema's directory: path -> file
    dirs,       \* the directories that exist there
    runNo,      \* how many runs have been launched
    status,     \* "idle", "running", "ended" (all tasks settled) or "failed"
    exitCode,   \* the exit status of the last finished run, -1 while none
    pending,    \* task -> what the task of the current run is waiting for
    existed,    \* the paths that existed when the current run was launched
    wlog,       \* the writes of the current run: task, path, content, basis
    clog,       \* the contract checks of the current run: task, exports seen
    error,      \* the error that ended the current run: file and symbol
    prevFs,     \* the files as the previous run left them
    prevOk,     \* whether a previous run ended with all its tasks settled
    defs,       \* registry -> key -> the producer registered, or none
    emittedDefs,\* registry -> the keys marked as emitted
    defCode,    \* registry -> the code of the section, in order
    trace,      \* the require calls so far: their beginnings and ends
    lastOp,     \* the last call made on the builder and what it threw
    nOps,       \* how many calls were made on the builder
    headerComment,    \* _headerComment
    namespaceImports, \* _namespaceImports: module -> identifier
    defaultImports,   \* _defaultImports: module -> identifier
    namedImports,     \* _namedImports: module -> identifiers
    typeImports,      \* _typeImports: module -> identifiers
    imported,         \* the import registrations made so far, as a set
    lastImport,       \* the last import registration
    nImports          \* how many import registrations were made

renderVars == <<rNode, rPos, rOut, dispatchers>>

schemaVars == <<schema, sStep, typeIndex, shapeOf, shape>>

runVars ==
    <<runSchema, fs, dirs, runNo, status, exitCode, pending, existed, wlog, clog,
      error, prevFs, prevOk>>

mbVars == <<defs, emittedDefs, defCode, trace, lastOp, nOps>>

importVars ==
    <<headerComment, namespaceImports, defaultImports, namedImports, typeImports,
      imported, lastImport, nImports>>

vars == <<renderVars, schemaVars, runVars, mbVars, importVars>>

(***************************************************************************)
(* JavaScript values the renderers can produce.  A call either returns a   *)
(* string, returns a function object (a property inherited from            *)
(* Object.prototype), or throws.                                           *)
(***************************************************************************)
Str(s) == [tag |-> "str", val |-> s]

Fn(s) == [tag |-> "fn", val |-> s]

Throw(e) == [tag |-> "throw", val |-> e]

Undefined == [tag |-> "undefined", val |-> "undefined"]

\* `${v}` in a template literal: String(v).
ToStr(v) == v.val

\* String.prototype.endsWith
EndsWith(s, suffix) ==
    /\ Len(s) >= Len(suffix)
    /\ SubSeq(s, Len(s) - Len(suffix) + 1, Len(s)) = suffix

\* The suffix of every nullable type expression.
NULL_SUFFIX == " | null"

\* The number of characters nonOptional cuts off.
StripLen == 7

MalformedNullableExpr == "Error: Expected type to end with | null"

TypeErrorNotAFunction == "TypeError: baseTypeExpr.endsWith is not a function"

\* nonOptional applied to a value that is not a string: the method lookup
\* baseTypeExpr.endsWith yields undefined, and calling it is a TypeError.
nonOptional(v) ==
    IF v.tag # "str" THEN Throw(TypeErrorNotAFunction)
    ELSE IF ~EndsWith(v.val, NULL_SUFFIX) THEN Throw(MalformedNullableExpr)
    ELSE Str(SubSeq(v.val, 1, Len(v.val) - StripLen))

ROOT_TYPES == {"Query", "Mutation"}

BUILTINS == {"Boolean", "Float", "ID", "Int", "String"}

(***************************************************************************)
(* FLOW_SCALARS is an object literal, so FLOW_SCALARS[name] also finds the *)
(* properties every object inherits from Object.prototype: for such a name *)
(* the lookup yields a function object, which is truthy.                   *)
(***************************************************************************)
ObjectPrototypeKeys == {"constructor", "toString", "valueOf", "hasOwnProperty"}

NativeSource(name) == "function " \o name \o "() { [native code] }"

FLOW_SCALARS(name) ==
    CASE name = "ID" -> Str("string | number | null")
      [] name = "String" -> Str("string | null")
      [] name = "Int" -> Str("number | null")
      [] name = "Float" -> Str("number | null")
      [] name = "Boolean" -> Str("boolean | null")
      [] name \in ObjectPrototypeKeys -> Fn(NativeSource(name))
      [] OTHER -> Undefined

(***************************************************************************)
(* Type nodes: a named node is [kind, name]; a wrapper is [kind, ofType].  *)
(***************************************************************************)
Named(kind, name) == [kind |-> kind, name |-> name]

ListOf(n) == [kind |-> "List", ofType |-> n]

NonNullOf(n) == [kind |-> "NonNull", ofType |-> n]

(***************************************************************************)
(* odispatch and idispatch: the handler a node is routed to, given the set *)
(* of handlers the caller supplied.  Each test of the if-chain is          *)
(* "instanceof X && dispatchers.onX".                                      *)
(***************************************************************************)
UnhandledVariant == "Error: Dispatcher does not handle node"

TypeErrorNoDefault == "TypeError: dispatchers.default is not a function"

odispatch(kind, handlers) ==
    CASE kind = "Scalar" /\ "onScalar" \in handlers -> "onScalar"
      [] kind = "NonNull" /\ "onNonNull" \in handlers -> "onNonNull"
      [] kind = "Object" /\ "onObject" \in handlers -> "onObject"
      [] kind = "List" /\ "onList" \in handlers -> "onList"
      [] kind = "Enum" /\ "onEnum" \in handlers -> "onEnum"
      [] kind = "Interface" /\ "onInterface" \in handlers -> "onInterface"
      [] kind = "Union" /\ "onUnion" \in handlers -> "onUnion"
      [] OTHER -> IF "default" \in handlers THEN "default" ELSE UnhandledVariant

idispatch(kind, handlers) ==
    CASE kind = "Scalar" /\ "onScalar" \in handlers -> "onScalar"
      [] kind = "Enum" /\ "onEnum" \in handlers -> "onEnum"
      [] kind = "InputObject" /\ "onObject" \in handlers -> "onObject"
      [] kind = "List" /\ "onList" \in handlers -> "onList"
      [] kind = "NonNull" /\ "onNonNull" \in handlers -> "onNonNull"
      [] OTHER -> IF "default" \in handlers THEN "default" ELSE TypeErrorNoDefault

TypeRefHandlers == {"onScalar", "onNonNull", "onList", "default"}

\* FLOW_SCALARS[node.name] || `${node.name} | null`
onScalarRef(name) ==
    IF FLOW_SCALARS(name).tag = "undefined"
    THEN Str(name \o NULL_SUFFIX)
    ELSE FLOW_SCALARS(name)

MissingTypeName == "Error: Missing type name"

\* the default handler of both renderers
onNamedRef(node) ==
    IF node.name = "" THEN Throw(MissingTypeName) ELSE Str(node.name \o NULL_SUFFIX)

onListRefAsList(inner) ==
    IF inner.tag = "throw" THEN inner
    ELSE Str("List<" \o ToStr(inner) \o ">" \o NULL_SUFFIX)

\* `Array<${inner}> | null`; an exception thrown while rendering the inner
\* node propagates.
onListRef(inner) ==
    IF inner.tag = "throw" THEN inner
    ELSE Str("Array<" \o ToStr(inner) \o ">" \o NULL_SUFFIX)

\* nonOptional(render(node.ofType)); an exception of the inner call propagates.
onNonNullRef(inner) ==
    IF inner.tag = "throw" THEN inner ELSE nonOptional(inner)

RECURSIVE toFlowOutputTypeRef(_)
toFlowOutputTypeRef(node) ==
    LET h == odispatch(node.kind, TypeRefHandlers) IN
    CASE h = "onScalar" -> onScalarRef(node.name)
      [] h = "onNonNull" -> onNonNullRef(toFlowOutputTypeRef(node.ofType))
      [] h = "onList" -> onListRef(toFlowOutputTypeRef(node.ofType))
      [] h = "default" -> onNamedRef(node)
      [] OTHER -> Throw(h)

RECURSIVE toFlowInputTypeRef(_)
toFlowInputTypeRef(node) ==
    LET h == idispatch(node.kind, TypeRefHandlers) IN
    CASE h = "onScalar" -> onScalarRef(node.name)
      [] h = "onNonNull" -> onNonNullRef(toFlowInputTypeRef(node.ofType))
      [] h = "onList" -> onListRef(toFlowInputTypeRef(node.ofType))
      [] h = "default" -> onNamedRef(node)
      [] OTHER -> Throw(h)

(***************************************************************************)
(* The nodes the renderers are checked on: every named node of a small     *)
(* vocabulary, wrapped up to MaxWrap times.  As in graphql-js, a NonNull   *)
(* never wraps a NonNull.                                                  *)
(***************************************************************************)
MaxWrap == 2

NamedNodes ==
    {Named("Scalar", n) : n \in BUILTINS \cup {"Date", "constructor"}}
        \cup {Named("Object", "User"), Named("Interface", "Node"),
              Named("Union", "SearchResult"), Named("Enum", "Role"),
              Named("InputObject", "UserInput")}

RECURSIVE NodesUpTo(_)
NodesUpTo(d) ==
    IF d = 0 THEN NamedNodes
    ELSE LET S == NodesUpTo(d - 1) IN
         S \cup {ListOf(n) : n \in S}
           \cup {NonNullOf(n) : n \in {m \in S : m.kind # "NonNull"}}

TypeNodes == NodesUpTo(MaxWrap)

NoValue == [tag |-> "none", val |-> ""]

\* The node of the renderer part while another part is checked.
IdleNode == Named("Scalar", "ID")

RenderOutput ==
    /\ rPos = "none"
    /\ rPos' = "out"
    /\ rOut' = toFlowOutputTypeRef(rNode)
    /\ UNCHANGED <<rNode, dispatchers>>
    /\ UNCHANGED <<schemaVars, runVars, mbVars, importVars>>

RenderInput ==
    /\ rPos = "none"
    /\ rPos' = "in"
    /\ rOut' = toFlowInputTypeRef(rNode)
    /\ UNCHANGED <<rNode, dispatchers>>
    /\ UNCHANGED <<schemaVars, runVars, mbVars, importVars>>

NextRender == RenderOutput \/ RenderInput

(***************************************************************************)
(* The two dispatch functions on their own: any value, any handlers.       *)
(***************************************************************************)
Handlers ==
    {"onScalar", "onNonNull", "onObject", "onList", "onEnum", "onInterface",
     "onUnion", "default"}

\* One value of every variant, output and input.
DispatchValues ==
    {Named("Scalar", "Date"), Named("Object", "User"), Named("Interface", "Node"),
     Named("Union", "SearchResult"), Named("Enum", "Role"),
     Named("InputObject", "UserInput"), ListOf(Named("Object", "User")),
     NonNullOf(Named("Scalar", "Date"))}

\* String(value) of a type: its name, [T] for a list, T! for a non-null.
RECURSIVE StringOf(_)
StringOf(node) ==
    CASE node.kind = "List" -> "[" \o StringOf(node.ofType) \o "]"
      [] node.kind = "NonNull" -> StringOf(node.ofType) \o "!"
      [] OTHER -> node.name

\* The handler was called with the value.
Routed(handler) == [tag |-> "handler", val |-> handler]

\* What a call of odispatch comes to.
odispatchCall(value, handlers) ==
    LET h == odispatch(value.kind, handlers) IN
    IF h = UnhandledVariant
    THEN Throw(UnhandledVariant \o " of type \"" \o StringOf(value)
                   \o "\", and also does not define a default handler")
    ELSE Routed(h)

\* What a call of idispatch comes to: without a default, the else branch
\* calls undefined.
idispatchCall(value, handlers) ==
    LET h == idispatch(value.kind, handlers) IN
    IF h = TypeErrorNoDefault THEN Throw(TypeErrorNoDefault) ELSE Routed(h)

Odispatch ==
    /\ rPos = "none"
    /\ rPos' = "odispatch"
    /\ rOut' = odispatchCall(rNode, dispatchers)
    /\ UNCHANGED <<rNode, dispatchers>>
    /\ UNCHANGED <<schemaVars, runVars, mbVars, importVars>>

Idispatch ==
    /\ rPos = "none"
    /\ rPos' = "idispatch"
    /\ rOut' = idispatchCall(rNode, dispatchers)
    /\ UNCHANGED <<rNode, dispatchers>>
    /\ UNCHANGED <<schemaVars, runVars, mbVars, importVars>>

NextDispatch == Odispatch \/ Idispatch

(***************************************************************************)
(* part 2  the schema, the canonical type index and the resolver shapes    *)
(***************************************************************************)

\* String.prototype.startsWith
StartsWith(s, prefix) ==
    /\ Len(s) >= Len(prefix)
    /\ SubSeq(s, 1, Len(prefix)) = prefix

\* The characters of a GraphQL name, in code-unit order.
NameChars == "0123456789ABCDEFGHIJKLMNOPQRSTUVWXYZ_abcdefghijklmnopqrstuvwxyz"

CharCode(c) == CHOOSE i \in 1..Len(NameChars) : SubSeq(NameChars, i, i) = c

\* a < b on JavaScript strings: the first differing code unit decides, and a
\* proper prefix is smaller.
RECURSIVE StrLess(_, _)
StrLess(a, b) ==
    IF Len(b) = 0 THEN FALSE
    ELSE IF Len(a) = 0 THEN TRUE
    ELSE LET ca == CharCode(SubSeq(a, 1, 1))
             cb == CharCode(SubSeq(b, 1, 1))
         IN  IF ca # cb THEN ca < cb
             ELSE StrLess(SubSeq(a, 2, Len(a)), SubSeq(b, 2, Len(b)))

\* lodash sortBy(array) of strings: a stable ascending insertion of each
\* element after the elements that are not greater.
RECURSIVE InsertSorted(_, _)
InsertSorted(sorted, x) ==
    IF sorted = <<>> THEN <<x>>
    ELSE IF StrLess(x, Head(sorted)) THEN <<x>> \o sorted
    ELSE <<Head(sorted)>> \o InsertSorted(Tail(sorted), x)

RECURSIVE sortBy(_)
sortBy(seq) ==
    IF seq = <<>> THEN <<>>
    ELSE InsertSorted(sortBy(SubSeq(seq, 1, Len(seq) - 1)), seq[Len(seq)])

\* Array.prototype.join
RECURSIVE Join(_, _)
Join(seq, sep) ==
    IF seq = <<>> THEN ""
    ELSE IF Len(seq) = 1 THEN seq[1]
    ELSE seq[1] \o sep \o Join(Tail(seq), sep)

\* the concatenation of a sequence of sequences
RECURSIVE Flatten(_)
Flatten(seqs) == IF seqs = <<>> THEN <<>> ELSE Head(seqs) \o Flatten(Tail(seqs))

Range(seq) == {seq[i] : i \in 1..Len(seq)}

(***************************************************************************)
(* A schema is its type map: a sequence of type definitions in key order.  *)
(* A definition is [kind, name, fields, interfaces, members, values]; a    *)
(* field is [name, type, args] and an argument [name, type].               *)
(***************************************************************************)
Field(name, type, args) == [name |-> name, type |-> type, args |-> args]

Arg(name, type) == [name |-> name, type |-> type]

TypeDef(kind, name, fields, interfaces, members, values) ==
    [kind |-> kind, name |-> name, fields |-> fields, interfaces |-> interfaces,
     members |-> members, values |-> values]

ScalarDef(name) == TypeDef("Scalar", name, <<>>, <<>>, <<>>, <<>>)

\* schema.getTypeMap(), as the sequence of its keys
TypeMapKeys(s) == [i \in 1..Len(s) |-> s[i].name]

\* schema.getType(name)
getType(s, name) == s[CHOOSE i \in 1..Len(s) : s[i].name = name]

IsKind(s, name, kind) == getType(s, name).kind = kind

namedTypesFromSchemaWithoutRoots(s) ==
    LET NotIntrospection(name) == ~StartsWith(name, "__")
        NotBuiltin(name) == name \notin BUILTINS
        NotRoot(name) == name \notin ROOT_TYPES
    IN  sortBy(SelectSeq(SelectSeq(SelectSeq(TypeMapKeys(s), NotIntrospection),
                                   NotBuiltin), NotRoot))

namedTypesFromSchema(s) ==
    LET NotIntrospection(name) == ~StartsWith(name, "__")
        NotBuiltin(name) == name \notin BUILTINS
    IN  sortBy(SelectSeq(SelectSeq(TypeMapKeys(s), NotIntrospection), NotBuiltin))

isUnionOrInterfaceType(typename, s) ==
    getType(s, typename).kind \in {"Interface", "Union"}

\* `{| +a: T, +b: U |}`; Throw when an argument type fails to render
toFlowArgType(args) ==
    LET refs == [i \in 1..Len(args) |-> toFlowInputTypeRef(args[i].type)]
        bad == {i \in 1..Len(args) : refs[i].tag = "throw"}
        exprs == [i \in 1..Len(args) |-> "+" \o args[i].name \o ": " \o ToStr(refs[i])]
    IN  IF bad # {} THEN refs[CHOOSE i \in bad : \A j \in bad : i <= j]
        ELSE Str("{| " \o Join(exprs, ", ") \o " |}")

\* `${field.name}: Resolver<${[parent, output, args].filter(Boolean).join(',')}>,`
toFieldTypeDefinition(parentName, field) ==
    LET parent == IF parentName \in ROOT_TYPES THEN "null" ELSE parentName
        output == toFlowOutputTypeRef(field.type)
        args == IF Len(field.args) = 0 THEN Undefined ELSE toFlowArgType(field.args)
        parts == <<parent, ToStr(output)>>
                    \o (IF args.tag = "undefined" THEN <<>> ELSE <<ToStr(args)>>)
    IN  IF output.tag = "throw" THEN output
        ELSE IF args.tag = "throw" THEN args
        ELSE Str(field.name \o ": Resolver<" \o Join(parts, ",") \o ">,")

Lines(ls) == [tag |-> "lines", val |-> ls]

FirstThrow(vals) ==
    LET bad == {i \in 1..Len(vals) : vals[i].tag = "throw"}
    IN  vals[CHOOSE i \in bad : \A j \in bad : i <= j]

AnyThrow(vals) == \E i \in 1..Len(vals) : vals[i].tag = "throw"

FromComment(ifaceName) == "// From " \o ifaceName

\* The section of one implemented interface: '', the provenance comment,
\* and one line per field of the interface, in the interface's field order.
InterfaceSection(s, node, ifaceName) ==
    LET ifields == getType(s, ifaceName).fields
    IN  [i \in 1..Len(ifields) |-> toFieldTypeDefinition(node.name, ifields[i])]

\* The field names the loop over the interfaces has added to `seen`.
SeenAfterInterfaces(s, node) ==
    UNION {{f.name : f \in Range(getType(s, node.interfaces[i]).fields)} :
              i \in 1..Len(node.interfaces)}

\* onObject of toResolverTypeDefinition
onObjectResolverType(s, node) ==
    LET ifaceDefs == [i \in 1..Len(node.interfaces) |->
                          InterfaceSection(s, node, node.interfaces[i])]
        sections == [i \in 1..Len(node.interfaces) |->
                          <<"", FromComment(node.interfaces[i])>>
                              \o [j \in 1..Len(ifaceDefs[i]) |-> ToStr(ifaceDefs[i][j])]]
        seen == SeenAfterInterfaces(s, node)
        NotSeen(f) == f.name \notin seen
        own == SelectSeq(node.fields, NotSeen)
        ownDefs == [i \in 1..Len(own) |-> toFieldTypeDefinition(node.name, own[i])]
        all == Flatten(ifaceDefs) \o ownDefs
    IN  IF AnyThrow(all) THEN FirstThrow(all)
        ELSE Lines(<<"export type " \o node.name \o "Resolver = {|">>
                     \o Flatten(sections)
                     \o [i \in 1..Len(ownDefs) |-> ToStr(ownDefs[i])]
                     \o <<"|}">>)

\* onEnum of toResolverTypeDefinition: each value is `| "v"\n`, joined by '\n'
onEnumResolverType(node) ==
    LET entry(v) == <<"| \"" \o v \o "\"", "">>
    IN  Lines(<<"export type " \o node.name \o " = ">>
                \o Flatten([i \in 1..Len(node.values) |-> entry(node.values[i])]))

NotImplemented == "Error: Not implemented"

ResolverTypeHandlers ==
    {"onScalar", "onInterface", "onUnion", "onObject", "onEnum", "default"}

toResolverTypeDefinition(s, node) ==
    LET h == odispatch(node.kind, ResolverTypeHandlers) IN
    CASE h \in {"onScalar", "onInterface", "onUnion"} -> Lines(<<"">>)
      [] h = "onObject" -> onObjectResolverType(s, node)
      [] h = "onEnum" -> onEnumResolverType(node)
      [] OTHER -> Throw(NotImplemented)

(***************************************************************************)
(* The schemas the synthesizer is checked on.  User implements any list of *)
(* the interfaces Node and Entity, which may declare the same field, and   *)
(* may or may not redeclare the fields it inherits; the union has User as *)
(* its member, or User and then Account, which implements Node; the root   *)
(* types and a custom scalar are optional; the type map lists the types in *)
(* either order, followed by the builtin scalars in use and introspection  *)
(* types.                                                                  *)
(***************************************************************************)
ID == Named("Scalar", "ID")

String == Named("Scalar", "String")

F_id == Field("id", NonNullOf(ID), <<>>)

F_name == Field("name", String, <<>>)

F_email == Field("email", String, <<>>)

\* name: String!, which may redeclare the name: String of an interface
F_nameRequired == Field("name", NonNullOf(String), <<>>)

F_user == Field("user", Named("Object", "User"), <<Arg("id", NonNullOf(ID))>>)

F_users == Field("users", ListOf(Named("Object", "User")), <<>>)

F_addUser ==
    Field("addUser", Named("Object", "User"),
          <<Arg("input", NonNullOf(Named("InputObject", "UserInput"))),
            Arg("role", Named("Enum", "Role"))>>)

Reverse(seq) == [i \in 1..Len(seq) |-> seq[Len(seq) + 1 - i]]

UserTypes(nodeFields, entityFields, userIfaces, userOwn, unionMembers) ==
    << TypeDef("Object", "User", userOwn, userIfaces, <<>>, <<>>) >>
    \o (IF "Account" \in Range(unionMembers)
        THEN <<TypeDef("Object", "Account", nodeFields, <<"Node">>, <<>>, <<>>)>>
        ELSE <<>>)
    \o <<
       TypeDef("Interface", "Node", nodeFields, <<>>, <<>>, <<>>),
       TypeDef("Interface", "Entity", entityFields, <<>>, <<>>, <<>>),
       TypeDef("Union", "SearchResult", <<>>, <<>>, unionMembers, <<>>),
       TypeDef("Enum", "Role", <<>>, <<>>, <<>>, <<"USER", "ADMIN">>),
       TypeDef("InputObject", "UserInput", <<F_name, F_email>>, <<>>, <<>>, <<>>) >>

RootTypes(roots) ==
    (IF "Query" \in roots
     THEN <<TypeDef("Object", "Query", <<F_user, F_users>>, <<>>, <<>>, <<>>)>>
     ELSE <<>>)
    \o (IF "Mutation" \in roots
        THEN <<TypeDef("Object", "Mutation", <<F_addUser>>, <<>>, <<>>, <<>>)>>
        ELSE <<>>)

ImplicitTypes ==
    << ScalarDef("ID"), ScalarDef("String"), ScalarDef("Boolean"),
       TypeDef("Object", "__Schema", <<>>, <<>>, <<>>, <<>>),
       TypeDef("Object", "__Type", <<>>, <<>>, <<>>, <<>>) >>

SchemaFamily ==
    { RootTypes(roots)
        \o (IF reversed THEN Reverse(UserTypes(nf, ef, ui, uo, um))
                        ELSE UserTypes(nf, ef, ui, uo, um))
        \o [i \in 1..Len(scalars) |-> ScalarDef(scalars[i])]
        \o ImplicitTypes :
        roots \in SUBSET ROOT_TYPES,
        reversed \in BOOLEAN,
        scalars \in {<<>>, <<"index", "Date">>},
        nf \in {<<F_id>>, <<F_id, F_name>>},
        ef \in {<<F_name>>, <<F_name, F_id>>},
        ui \in {<<>>, <<"Node">>, <<"Entity">>, <<"Node", "Entity">>,
                <<"Entity", "Node">>},
        uo \in {<<F_email>>, <<F_id, F_name, F_email>>, <<F_email, F_name>>,
                <<F_email, F_nameRequired>>},
        um \in {<<"User">>, <<"User", "Account">>} }

NoIndex == <<>>

NoShape == [tag |-> "none", val |-> <<>>]


\* const typeNames = namedTypesFromSchema(schema)
ComputeIndex ==
    /\ sStep = "init"
    /\ sStep' = "index"
    /\ typeIndex' = namedTypesFromSchema(schema)
    /\ UNCHANGED <<schema, shapeOf, shape>>
    /\ UNCHANGED <<renderVars, runVars, mbVars, importVars>>

\* One element of resolverDefs in writeResolverTypes: the definition of a
\* type of the index that is neither a Union nor an InputObject.
SynthesizeShape ==
    /\ sStep = "init"
    /\ \E name \in Range(namedTypesFromSchema(schema)) :
          /\ getType(schema, name).kind \notin {"Union", "InputObject"}
          /\ shapeOf' = name
          /\ shape' = toResolverTypeDefinition(schema, getType(schema, name))
    /\ sStep' = "shape"
    /\ UNCHANGED <<schema, typeIndex>>
    /\ UNCHANGED <<renderVars, runVars, mbVars, importVars>>

\* The names of the concrete types of a Union (its member types, as
\* declared) or of an Interface (the Object types of the index that list it
\* among their interfaces).
getConcreteSubtypes(s, name) ==
    LET type == getType(s, name)
        Implements(typename) ==
            /\ getType(s, typename).kind = "Object"
            /\ \E i \in 1..Len(getType(s, typename).interfaces) :
                  getType(s, typename).interfaces[i] = name
    IN  IF type.kind = "Union" THEN type.members
        ELSE SelectSeq(namedTypesFromSchema(s), Implements)

\* One element of interfaceDefs in writeResolverTypes: the alias of the
\* type and the alias of its type names.
interfaceDef(s, name) ==
    LET concretes == getConcreteSubtypes(s, name)
    IN  Lines(<< "export type " \o name \o " = " \o Join(concretes, " | ") \o ";",
                 "export type " \o name \o "$typename = "
                     \o Join([i \in 1..Len(concretes) |->
                                 "\"" \o concretes[i] \o "\""], " | ") \o ";" >>)

SynthesizeAliases ==
    /\ sStep = "init"
    /\ \E name \in Range(namedTypesFromSchema(schema)) :
          /\ isUnionOrInterfaceType(name, schema)
          /\ shapeOf' = name
          /\ shape' = interfaceDef(schema, name)
    /\ sStep' = "aliases"
    /\ UNCHANGED <<schema, typeIndex>>
    /\ UNCHANGED <<renderVars, runVars, mbVars, importVars>>

InputTypeHandlers == {"onObject", "default"}

toFlowInputTypeDefinitionReversed(node) ==
    LET refs == [i \in 1..Len(node.fields) |-> toFlowInputTypeRef(node.fields[i].type)]
    IN  IF idispatch(node.kind, InputTypeHandlers) # "onObject" \/ AnyThrow(refs)
        THEN Throw(MissingTypeName)
        ELSE Lines(<<"{|">>
                     \o Reverse([i \in 1..Len(refs) |->
                                    "+" \o node.fields[i].name \o ": "
                                        \o ToStr(refs[i]) \o ","])
                     \o <<"|}">>)

\* toFlowInputTypeDefinition: '{|', one `+name: type,` per field, '|}',
\* joined by '\n'; any other node than an InputObject throws.
toFlowInputTypeDefinition(node) ==
    LET refs == [i \in 1..Len(node.fields) |-> toFlowInputTypeRef(node.fields[i].type)]
    IN  IF idispatch(node.kind, InputTypeHandlers) # "onObject"
        THEN Throw(MissingTypeName)
        ELSE IF AnyThrow(refs) THEN FirstThrow(refs)
        ELSE Lines(<<"{|">>
                     \o [i \in 1..Len(refs) |->
                            "+" \o node.fields[i].name \o ": " \o ToStr(refs[i]) \o ","]
                     \o <<"|}">>)

\* One element of inputTypeDefs in writeResolverTypes:
\* `type ${name} = ${toFlowInputTypeDefinition(node)};\n`
inputTypeDef(s, name) ==
    LET def == toFlowInputTypeDefinition(getType(s, name))
        n == Len(def.val)
    IN  IF def.tag = "throw" THEN def
        ELSE Lines(<<"type " \o name \o " = " \o def.val[1]>>
                     \o SubSeq(def.val, 2, n - 1)
                     \o <<def.val[n] \o ";", "">>)

\* The lines of the definitions from the i-th on: join('\n').
RECURSIVE JoinedFrom(_, _)
JoinedFrom(items, i) ==
    IF i > Len(items) THEN <<>> ELSE items[i].val \o JoinedFrom(items, i + 1)

\* inputTypeDefs and resolverDefs of writeResolverTypes: the definitions of
\* the InputObject types of the index, then the resolver definitions of the
\* types that are neither a Union nor an InputObject, the empty ones left
\* out.
typeDefsOf(s) ==
    LET names == namedTypesFromSchema(s)
        IsInput(name) == IsKind(s, name, "InputObject")
        Resolved(name) == getType(s, name).kind \notin {"Union", "InputObject"}
        inputs == SelectSeq(names, IsInput)
        resolved == SelectSeq(names, Resolved)
        NotEmpty(def) == def # Lines(<<"">>)
    IN  [i \in 1..Len(inputs) |-> inputTypeDef(s, inputs[i])]
            \o SelectSeq([i \in 1..Len(resolved) |->
                             toResolverTypeDefinition(s, getType(s, resolved[i]))],
                         NotEmpty)

SynthesizeTypeDefs ==
    /\ sStep = "init"
    /\ \E items \in {typeDefsOf(schema)} :
          shape' = IF AnyThrow(items) THEN FirstThrow(items)
                   ELSE Lines(JoinedFrom(items, 1))
    /\ shapeOf' = ""
    /\ sStep' = "typeDefs"
    /\ UNCHANGED <<schema, typeIndex>>
    /\ UNCHANGED <<renderVars, runVars, mbVars, importVars>>

NextSchema ==
    ComputeIndex \/ SynthesizeShape \/ SynthesizeAliases \/ SynthesizeTypeDefs

(***************************************************************************)
(* part 3  the generator run: files, the idempotency decisions and the     *)
(* concurrent generation tasks                                             *)
(*                                                                         *)
(* A file is a sequence of top-level items.  An item has a form (what kind *)
(* of statement it is), the name it declares, whether it is exported,      *)
(* whether it carries a TODO marker, and whether its text is in the        *)
(* formatter's canonical layout.                                           *)
(***************************************************************************)
RawItem(form, name, exported, todo) ==
    [form |-> form, name |-> name, exported |-> exported, todo |-> todo,
     canon |-> FALSE]

File(items) == [exists |-> TRUE, items |-> items]

Absent == [exists |-> FALSE, items |-> <<>>]

Path(dir, base) == <<dir, base>>

\* prettier.format: every statement is laid out canonically; statements
\* are neither added, dropped nor reordered.
prettify(items) == [i \in 1..Len(items) |-> [items[i] EXCEPT !.canon = TRUE]]

\* getExportsFromAST: the names of exported variable, function and type
\* alias declarations and of export specifiers; other exports are not seen.
ScannedForms == {"const", "function", "type", "specifier"}

getExportsFromAST(items) ==
    {it.name : it \in {x \in Range(items) : x.exported /\ x.form \in ScannedForms}}

HEADER_COMMENT == "// @flow AUTOMATICALLY GENERATED"

FlowHeader == "// @flow"

Comment(text) == RawItem("comment", text, FALSE, FALSE)

\* The import lines of a module, as one item naming the source modules.
Imports(modules) == RawItem("imports", Join(modules, " "), FALSE, FALSE)

CustomScalars(s) ==
    LET IsScalar(name) == IsKind(s, name, "Scalar")
        NotBuiltin(name) == name \notin BUILTINS
    IN  SelectSeq(SelectSeq(namedTypesFromSchema(s), IsScalar), NotBuiltin)

ObjectNames(s) ==
    LET IsObject(name) == IsKind(s, name, "Object")
    IN  SelectSeq(namedTypesFromSchema(s), IsObject)

\* modelNames of writeModelsScaffold and writeResolverTypes
ModelNames(s) ==
    LET NotRoot(name) == name \notin ROOT_TYPES
    IN  SelectSeq(ObjectNames(s), NotRoot)

InterfaceNames(s) ==
    LET IsAbstract(name) == isUnionOrInterfaceType(name, s)
    IN  SelectSeq(namedTypesFromSchema(s), IsAbstract)

\* writeResolverTypes: the module written to types/index.js
GenResolverTypes(s) ==
    LET names == namedTypesFromSchema(s)
        IsInput(name) == IsKind(s, name, "InputObject")
        HasShape(name) == getType(s, name).kind \in {"Object", "Enum"}
        inputs == SelectSeq(names, IsInput)
        shaped == SelectSeq(names, HasShape)
        ifaces == InterfaceNames(s)
        ShapeName(name) ==
            IF IsKind(s, name, "Object") THEN name \o "Resolver" ELSE name
    IN  <<Comment(HEADER_COMMENT),
          Imports(<<"../context", "graphql">>
                    \o (IF CustomScalars(s) = <<>> THEN <<>> ELSE <<"../scalars">>)
                    \o (IF ModelNames(s) = <<>> THEN <<>> ELSE <<"../models">>)),
          RawItem("type", "Resolver", FALSE, FALSE)>>
        \o Flatten([i \in 1..Len(ifaces) |->
                      <<RawItem("type", ifaces[i], TRUE, FALSE),
                        RawItem("type", ifaces[i] \o "$typename", TRUE, FALSE)>>])
        \o [i \in 1..Len(inputs) |-> RawItem("type", inputs[i], FALSE, FALSE)]
        \o [i \in 1..Len(shaped) |-> RawItem("type", ShapeName(shaped[i]), TRUE, FALSE)]

\* writeResolverImpl: the stub of one Object type.  Only the own fields of a
\* root type get a TODO body; every other field resolver passes through.
GenResolverImplAllTodo(s, modelName) ==
    <<Comment(FlowHeader),
      Imports(<<"../types">>),
      RawItem("const", modelName \o "Resolver", FALSE, TRUE),
      RawItem("default", modelName \o "Resolver", TRUE, FALSE)>>

GenResolverImpl(s, modelName) ==
    LET node == getType(s, modelName)
        seen == SeenAfterInterfaces(s, node)
        own == {f \in Range(node.fields) : f.name \notin seen}
    IN  <<Comment(FlowHeader),
          Imports(<<"../types">>),
          RawItem("const", modelName \o "Resolver", FALSE,
                  modelName \in ROOT_TYPES /\ own # {}),
          RawItem("default", modelName \o "Resolver", TRUE, FALSE)>>

\* writeInterfaceImpl: the stub of one Interface or Union type
GenInterfaceImpl(name) ==
    <<Comment(FlowHeader),
      Imports(<<"../types">>),
      RawItem("function", "dispatch", TRUE, TRUE)>>

\* writeScalarImpl: the stub of one custom scalar
GenScalarImpl(name) ==
    <<Comment(FlowHeader),
      Imports(<<"decoders">>),
      RawItem("type", name, TRUE, TRUE),
      RawItem("const", "serialize", TRUE, FALSE),
      RawItem("const", "decoder", TRUE, TRUE)>>

\* writeScalarsIndex: `export type { Name } from './Name'` per custom scalar
GenScalarsIndex(s) ==
    <<Comment(HEADER_COMMENT)>>
        \o [i \in 1..Len(CustomScalars(s)) |->
               RawItem("specifier", CustomScalars(s)[i], TRUE, FALSE)]

\* writeRootResolverImpl: the resolver map of resolvers/index.js
GenRootResolver(s) ==
    LET IsScalar(name) == IsKind(s, name, "Scalar")
        scalarNames == SelectSeq(namedTypesFromSchema(s), IsScalar)
    IN  <<Comment(HEADER_COMMENT),
          Imports([i \in 1..Len(scalarNames) |-> "../scalars/" \o scalarNames[i]]
                    \o [i \in 1..Len(InterfaceNames(s)) |->
                           "../interfaces/" \o InterfaceNames(s)[i]]
                    \o [i \in 1..Len(ObjectNames(s)) |->
                           "./" \o ObjectNames(s)[i] \o "Resolver"]),
          RawItem("const", "resolverMap", FALSE, FALSE),
          RawItem("default", "resolverMap", TRUE, FALSE)>>

\* The declarations writeModelsScaffold appends for the missing models.
ModelDecls(missing) ==
    [i \in 1..Len(missing) |-> RawItem("type", missing[i], TRUE, TRUE)]

\* The declarations writeContextScaffold appends.
ContextDecls(exports) ==
    (IF "Context" \in exports THEN <<>>
     ELSE <<RawItem("type", "Context", TRUE, TRUE)>>)
    \o (IF "makeContext" \in exports THEN <<>>
        ELSE <<RawItem("function", "makeContext", TRUE, TRUE)>>)

\* '// @flow\n\n': origCode of a scaffold that does not exist yet
FreshScaffold == <<Comment(FlowHeader)>>

\* The exports writeScalarImpl requires, in the order it tests them.
ScalarContractNoDecoder(name) == <<name, "serialize">>

ScalarContract(name) == <<name, "serialize", "decoder">>

InterfaceContract == <<"dispatch">>

(***************************************************************************)
(* The tasks of one run.  A task is <<kind, type name>>.  JavaScript runs  *)
(* each task up to its first await when runWithOptions launches it, and    *)
(* afterwards one task at a time continues when its pending I/O completes: *)
(* a step of the model is one such completion plus the code up to the      *)
(* task's next await.  mkdirp and writeFile of one write are one step (no  *)
(* task lists a directory before its own category's writes are done), and  *)
(* so are the two reads of an additive scaffold (no other task writes it). *)
(***************************************************************************)
Task(kind, name) == <<kind, name>>

TypesTask == Task("types", "")

ContextTask == Task("context", "")

ModelsTask == Task("models", "")

ScalarsIndexTask == Task("scalarsIndex", "")

ScalarsTask == Task("scalars", "")

InterfacesTask == Task("interfaces", "")

RootResolverTask == Task("rootResolver", "")

ResolversTask == Task("resolvers", "")

ScalarTasks(s) == {Task("scalar", n) : n \in Range(CustomScalars(s))}

InterfaceTasks(s) == {Task("interface", n) : n \in Range(InterfaceNames(s))}

ResolverTasks(s) == {Task("resolver", n) : n \in Range(ObjectNames(s))}

\* The six promises of Promise.all in runWithOptions.
TopTasks ==
    {TypesTask, ContextTask, ModelsTask, ScalarsTask, InterfacesTask, ResolversTask}

\* The promises a category awaits with Promise.all before it lists its
\* directory.
Tasks(s) ==
    TopTasks \cup {ScalarsIndexTask, RootResolverTask}
        \cup ScalarTasks(s) \cup InterfaceTasks(s) \cup ResolverTasks(s)

SubTasks(tasks, t) ==
    CASE t = ScalarsTask -> {u \in tasks : u[1] \in {"scalarsIndex", "scalar"}}
      [] t = InterfacesTask -> {u \in tasks : u[1] = "interface"}
      [] t = ResolversTask -> {u \in tasks : u[1] \in {"rootResolver", "resolver"}}
      [] OTHER -> {}

\* The file a task writes, or the directory a category lists.
TargetPath(t) ==
    CASE t[1] = "types" -> Path("types", "index.js")
      [] t[1] = "context" -> Path("context", "index.js")
      [] t[1] = "models" -> Path("models", "index.js")
      [] t[1] = "scalarsIndex" -> Path("scalars", "index.js")
      [] t[1] = "scalar" -> Path("scalars", t[2] \o ".js")
      [] t[1] = "scalars" -> Path("scalars", "")
      [] t[1] = "interface" -> Path("interfaces", t[2] \o ".js")
      [] t[1] = "interfaces" -> Path("interfaces", "")
      [] t[1] = "rootResolver" -> Path("resolvers", "index.js")
      [] t[1] = "resolver" -> Path("resolvers", t[2] \o "Resolver.js")
      [] OTHER -> Path("resolvers", "")

\* What a task is waiting for.
Op(op, content, orig, reported, result) ==
    [op |-> op, content |-> content, orig |-> orig, reported |-> reported,
     result |-> result]

PendingWrite(content, orig, reported) == Op("write", content, orig, reported, TRUE)

PendingRead == Op("read", <<>>, <<>>, {}, TRUE)

PendingReaddir == Op("readdir", <<>>, <<>>, {}, TRUE)

Done(result) == Op("done", <<>>, <<>>, {}, result)

Aborted == Op("aborted", <<>>, <<>>, {}, FALSE)

NotLaunched == Op("none", <<>>, <<>>, {}, FALSE)

\* writeContextScaffold and writeModelsScaffold from the point where
\* origCode and the exports are known: write the additions, if any.
AdditiveDecision(s, t, orig, reported) ==
    LET Missing(name) == name \notin reported
        decls == IF t = ContextTask THEN ContextDecls(reported)
                 ELSE ModelDecls(SelectSeq(ModelNames(s), Missing))
    IN  IF decls = <<>> THEN Done(TRUE)
        ELSE PendingWrite(prettify(orig \o decls), orig, reported)

\* A task run up to its first await, given the files that exist.
FirstAwait(s, files, t) ==
    LET exists == files[TargetPath(t)].exists IN
    CASE t = TypesTask -> PendingWrite(prettify(GenResolverTypes(s)), <<>>, {})
      [] t \in {ContextTask, ModelsTask} ->
            IF exists THEN PendingRead
            ELSE AdditiveDecision(s, t, FreshScaffold, {})
      [] t = ScalarsIndexTask ->
            IF Len(CustomScalars(s)) > 0
            THEN PendingWrite(prettify(GenScalarsIndex(s)), <<>>, {})
            ELSE Done(TRUE)
      [] t[1] = "scalar" ->
            IF exists THEN PendingRead
            ELSE PendingWrite(prettify(GenScalarImpl(t[2])), <<>>, {})
      [] t[1] = "interface" ->
            IF exists THEN PendingRead
            ELSE PendingWrite(prettify(GenInterfaceImpl(t[2])), <<>>, {})
      [] t = RootResolverTask -> PendingWrite(prettify(GenRootResolver(s)), <<>>, {})
      [] t[1] = "resolver" ->
            IF exists THEN Done(TRUE)
            ELSE PendingWrite(prettify(GenResolverImpl(s, t[2])), <<>>, {})
      [] OTHER -> PendingReaddir

\* String.prototype.toLowerCase on the characters of a file name
UpperChars == "ABCDEFGHIJKLMNOPQRSTUVWXYZ"

LowerChars == "abcdefghijklmnopqrstuvwxyz"

RECURSIVE toLowerCase(_)
toLowerCase(str) ==
    IF Len(str) = 0 THEN ""
    ELSE LET c == SubSeq(str, 1, 1)
             at == {i \in 1..Len(UpperChars) : SubSeq(UpperChars, i, i) = c}
             lc == IF at = {} THEN c
                   ELSE LET k == CHOOSE j \in at : TRUE IN SubSeq(LowerChars, k, k)
         IN  lc \o toLowerCase(SubSeq(str, 2, Len(str)))

\* f.match(pattern) for the two patterns in use: /.*\.js$/ of the scalars
\* and interfaces directories, /(index|.*resolver)\.js$/i of resolvers.
MatchesPattern(t, base) ==
    IF t = ResolversTask
    THEN \/ EndsWith(toLowerCase(base), "index.js")
         \/ EndsWith(toLowerCase(base), "resolver.js")
    ELSE EndsWith(base, ".js")

\* The files a category passes to checkOutputDir as expected.
ExpectedFiles(tasks, t) ==
    {TargetPath(u) : u \in SubTasks(tasks, t)}

\* checkOutputDir, given the listing: FALSE when a matching file is not
\* expected.
checkOutputDir(tasks, files, t) ==
    LET dir == TargetPath(t)[1]
        listing == {p \in DOMAIN files : p[1] = dir /\ files[p].exists}
        unexpected == {p \in listing :
                          MatchesPattern(t, p[2]) /\ p \notin ExpectedFiles(tasks, t)}
    IN  unexpected = {}

\* What the category's promise resolves to: writeScalarImpls awaits
\* checkOutputDir and returns nothing.
CategoryResult(tasks, files, t) ==
    IF t = ScalarsTask THEN TRUE ELSE checkOutputDir(tasks, files, t)

(***************************************************************************)
(* The schemas and the directories the generator is run on.                *)
(***************************************************************************)
QueryOf(fields) == TypeDef("Object", "Query", fields, <<>>, <<>>, <<>>)

RS_Full ==
    << QueryOf(<<F_user>>),
       TypeDef("Object", "User", <<F_id, F_name>>, <<"Node">>, <<>>, <<>>),
       TypeDef("Interface", "Node", <<F_id>>, <<>>, <<>>, <<>>),
       ScalarDef("Date") >> \o ImplicitTypes

RS_Plain ==
    << QueryOf(<<F_user>>),
       TypeDef("Object", "User", <<F_id, F_name>>, <<>>, <<>>, <<>>) >>
        \o ImplicitTypes

RS_Index ==
    << QueryOf(<<Field("now", Named("Scalar", "index"), <<>>)>>),
       ScalarDef("index") >> \o ImplicitTypes

RunSchemas == {RS_Full, RS_Plain, RS_Index}

AllPaths ==
    { Path("types", "index.js"), Path("context", "index.js"),
      Path("models", "index.js"), Path("scalars", "index.js"),
      Path("scalars", "Date.js"), Path("interfaces", "Node.js"),
      Path("interfaces", "Old.js"), Path("resolvers", "index.js"),
      Path("resolvers", "QueryResolver.js"), Path("resolvers", "UserResolver.js") }

AllDirs == {p[1] : p \in AllPaths}

\* A statement of a hand-edited file.
HandItem(form, name, exported, canon) ==
    [form |-> form, name |-> name, exported |-> exported, todo |-> FALSE,
     canon |-> canon]

HandScalar(names) ==
    File(<<HandItem("comment", FlowHeader, FALSE, TRUE)>>
           \o [i \in 1..Len(names) |->
                  HandItem(IF names[i] = "Date" THEN "type" ELSE "const",
                           names[i], TRUE, TRUE)])

ScalarFileOptions ==
    { Absent, HandScalar(<<"Date", "serialize", "decoder">>),
      HandScalar(<<"Date", "serialize">>), HandScalar(<<"serialize", "decoder">>) }

\* context/index.js and models/index.js: absent; hand-written in the user's
\* own layout, with part of the expected names; or complete.
AdditiveOptions ==
    { [context |-> Absent, models |-> Absent],
      [context |-> File(<<HandItem("comment", FlowHeader, FALSE, TRUE),
                          HandItem("type", "Context", TRUE, FALSE)>>),
       models |-> File(<<HandItem("comment", FlowHeader, FALSE, TRUE),
                         HandItem("class", "User", TRUE, FALSE),
                         HandItem("type", "Account", TRUE, TRUE)>>)],
      [context |-> File(<<HandItem("function", "makeContext", TRUE, FALSE),
                          HandItem("type", "Context", TRUE, TRUE)>>),
       models |-> File(<<HandItem("comment", FlowHeader, FALSE, TRUE),
                         HandItem("type", "Account", TRUE, TRUE)>>)] }

InterfaceFileOptions ==
    { Absent,
      File(<<HandItem("function", "dispatch", TRUE, TRUE)>>),
      File(<<HandItem("default", "dispatch", TRUE, TRUE)>>) }

\* scalars/index.js as a run on an earlier schema, with a scalar Money, left it
StaleScalarsIndex ==
    File(prettify(<<Comment(HEADER_COMMENT),
                    RawItem("specifier", "Money", TRUE, FALSE)>>))

\* The rest of the directory: nothing there; the directories only; or what
\* a run on an earlier schema and the user left behind.
EnvOptions ==
    { [dirs |-> {}, index |-> Absent, old |-> Absent, user |-> Absent],
      [dirs |-> AllDirs, index |-> Absent, old |-> Absent, user |-> Absent],
      [dirs |-> AllDirs, index |-> StaleScalarsIndex, old |-> Absent,
       user |-> Absent],
      [dirs |-> AllDirs,
       index |-> StaleScalarsIndex,
       old |-> File(prettify(GenInterfaceImpl("Old"))),
       user |-> File(<<HandItem("const", "UserResolver", FALSE, FALSE),
                       HandItem("default", "UserResolver", TRUE, FALSE)>>)] }

InitialFiles(scalar, additive, iface, env) ==
    [p \in AllPaths |->
        CASE p = Path("scalars", "Date.js") -> scalar
          [] p = Path("context", "index.js") -> additive.context
          [] p = Path("models", "index.js") -> additive.models
          [] p = Path("interfaces", "Node.js") -> iface
          [] p = Path("scalars", "index.js") -> env.index
          [] p = Path("interfaces", "Old.js") -> env.old
          [] p = Path("resolvers", "UserResolver.js") -> env.user
          [] OTHER -> Absent]

\* The directories a run is started in: a schema with a scalar and an
\* interface over every state of their files; every schema over every
\* state of the additive scaffolds and of the rest of the directory; and a
\* schema without custom scalars where the file of a scalar was left behind.
Scenarios ==
    { [s |-> RS_Full, scalar |-> sc, additive |-> ad, iface |-> i, env |-> e] :
        sc \in ScalarFileOptions, i \in InterfaceFileOptions,
        ad \in {a \in AdditiveOptions : ~a.context.exists},
        e \in {x \in EnvOptions : x.dirs # {} /\ ~x.index.exists} }
    \cup
    { [s |-> sch, scalar |-> Absent, additive |-> ad, iface |-> Absent, env |-> e] :
        sch \in RunSchemas, ad \in AdditiveOptions, e \in EnvOptions }
    \cup
    { [s |-> RS_Plain, scalar |-> HandScalar(<<"Date", "serialize", "decoder">>),
       additive |-> ad, iface |-> Absent, env |-> e] :
        ad \in {a \in AdditiveOptions : ~a.context.exists},
        e \in {x \in EnvOptions : x.dirs # {} /\ ~x.index.exists} }

DirsOf(files) == {p[1] : p \in {q \in DOMAIN files : files[q].exists}}

MaxRuns == 2

NoError == [file |-> Path("", ""), symbol |-> ""]

ENOENT == "ENOENT"

FailAwaitsOthers(file, symbol) ==
    /\ status' = status
    /\ exitCode' = exitCode
    /\ error' = [file |-> file, symbol |-> symbol]
    /\ pending' = pending

\* A task throws: the rejection reaches run().catch, which calls
\* process.exit(1); what the other tasks were waiting for never happens.
Fail(file, symbol) ==
    /\ status' = "failed"
    /\ exitCode' = 1
    /\ error' = [file |-> file, symbol |-> symbol]
    /\ pending' = [t \in DOMAIN pending |->
                      IF pending[t].op = "done" THEN pending[t] ELSE Aborted]

\* runWithOptions up to `await Promise.all`: every task runs to its first
\* await, in the order of the array.  The generator is started in the
\* initial directory, and again where a completed run left it.
Launch ==
    /\ status \in {"idle", "ended"}
    /\ runNo < MaxRuns
    /\ runNo' = runNo + 1
    /\ status' = "running"
    /\ exitCode' = -1
    /\ pending' = [t \in Tasks(runSchema) |-> FirstAwait(runSchema, fs, t)]
    /\ existed' = {p \in AllPaths : fs[p].exists}
    /\ wlog' = {}
    /\ clog' = {}
    /\ error' = NoError
    /\ prevFs' = fs
    /\ prevOk' = (status = "ended")
    /\ UNCHANGED <<runSchema, fs, dirs>>
    /\ UNCHANGED <<renderVars, schemaVars, mbVars, importVars>>

\* write(): the directory is made and the file written.
WriteLands ==
    /\ status = "running"
    /\ \E t \in DOMAIN pending :
          /\ pending[t].op = "write"
          /\ fs' = [fs EXCEPT ![TargetPath(t)] = File(pending[t].content)]
          /\ dirs' = dirs \cup {TargetPath(t)[1]}
          /\ wlog' = wlog \cup {[task |-> t, path |-> TargetPath(t),
                                 content |-> pending[t].content,
                                 orig |-> pending[t].orig,
                                 reported |-> pending[t].reported]}
          /\ pending' = [pending EXCEPT ![t] = Done(TRUE)]
    /\ UNCHANGED <<runSchema, runNo, status, exitCode, existed, clog, error,
                   prevFs, prevOk>>
    /\ UNCHANGED <<renderVars, schemaVars, mbVars, importVars>>

\* writeContextScaffold / writeModelsScaffold of an existing file: the file
\* and its exports have been read.
AdditiveRead ==
    /\ status = "running"
    /\ \E t \in {ContextTask, ModelsTask} :
          /\ pending[t].op = "read"
          /\ LET orig == fs[TargetPath(t)].items IN
             pending' = [pending EXCEPT ![t] =
                 AdditiveDecision(runSchema, t, orig, getExportsFromAST(orig))]
    /\ UNCHANGED <<runSchema, fs, dirs, runNo, status, exitCode, existed, wlog,
                   clog, error, prevFs, prevOk>>
    /\ UNCHANGED <<renderVars, schemaVars, mbVars, importVars>>

\* The contract of the task's file, and the first export it lacks.
ContractOf(t) ==
    IF t[1] = "scalar" THEN ScalarContract(t[2]) ELSE InterfaceContract

FirstMissing(contract, exports) ==
    LET missing == {i \in 1..Len(contract) : contract[i] \notin exports}
    IN  IF missing = {} THEN ""
        ELSE contract[CHOOSE i \in missing : \A j \in missing : i <= j]

\* writeScalarImpl / writeInterfaceImpl of an existing file: its exports
\* have been read; a missing one throws.
ContractCheck ==
    /\ status = "running"
    /\ \E t \in {u \in DOMAIN pending : u[1] \in {"scalar", "interface"}} :
          /\ pending[t].op = "read"
          /\ LET exports == getExportsFromAST(fs[TargetPath(t)].items)
                 missing == FirstMissing(ContractOf(t), exports)
             IN  /\ clog' = clog \cup {[task |-> t, exports |-> exports]}
                 /\ IF missing = ""
                    THEN /\ pending' = [pending EXCEPT ![t] = Done(TRUE)]
                         /\ UNCHANGED <<status, exitCode, error>>
                    ELSE Fail(TargetPath(t), missing)
    /\ UNCHANGED <<runSchema, fs, dirs, runNo, existed, wlog, prevFs, prevOk>>
    /\ UNCHANGED <<renderVars, schemaVars, mbVars, importVars>>

\* A category whose files are all settled: readdir has listed the output
\* directory, or failed because there is none.
CheckDir ==
    /\ status = "running"
    /\ \E t \in {ScalarsTask, InterfacesTask, ResolversTask} :
          /\ pending[t].op = "readdir"
          /\ \A u \in SubTasks(DOMAIN pending, t) : pending[u].op = "done"
          /\ IF TargetPath(t)[1] \in dirs
             THEN /\ pending' = [pending EXCEPT ![t] =
                                    Done(CategoryResult(DOMAIN pending, fs, t))]
                  /\ UNCHANGED <<status, exitCode, error>>
             ELSE Fail(TargetPath(t), ENOENT)
    /\ UNCHANGED <<runSchema, fs, dirs, runNo, existed, wlog, clog, prevFs, prevOk>>
    /\ UNCHANGED <<renderVars, schemaVars, mbVars, importVars>>

\* Promise.all of runWithOptions has resolved: exit 1 when a result is
\* falsy and not undefined, else the process ends with status 0.
Finish ==
    /\ status = "running"
    /\ \A t \in TopTasks : pending[t].op = "done"
    /\ status' = "ended"
    /\ exitCode' = IF \A t \in TopTasks : pending[t].result THEN 0 ELSE 1
    /\ UNCHANGED <<runSchema, fs, dirs, runNo, pending, existed, wlog, clog, error,
                   prevFs, prevOk>>
    /\ UNCHANGED <<renderVars, schemaVars, mbVars, importVars>>

NextRun == Launch \/ WriteLands \/ AdditiveRead \/ ContractCheck \/ CheckDir \/ Finish

(***************************************************************************)
(* Part 4: ModuleBuilder, the registry of definitions.  The value registry *)
(* (_defs, _emittedDefs, _defCode) and the type registry (_typeDefs,       *)
(* _emittedTypeDefs, _typeDefCode) are the two entries of one map each.    *)
(* A producer is a callback that receives the builder: it may require      *)
(* other keys before it returns its code.  JavaScript runs a call and the  *)
(* producers it invokes to completion, so one call is one step.            *)
(***************************************************************************)
Regs == {"def", "type"}

Keys == {"A", "B"}

NoProducer == [name |-> "none", reqs |-> <<>>]

Producer(name, reqs) == [name |-> name, reqs |-> reqs]

Call(reg, key) == <<reg, key>>

Producers ==
    { Producer("leaf", <<>>),
      Producer("needsA", <<Call("def", "A")>>),
      Producer("needsB", <<Call("def", "B")>>),
      Producer("needsTypeB", <<Call("type", "B")>>) }

NoThrow == "none"

UnknownDef == "UnknownDef"

DuplicateDef == "DuplicateDef"

\* The code a producer returns: it names the key it was registered for.
Code(reg, key, callback) == [reg |-> reg, key |-> key, by |-> callback.name]

\* A require call begins ("call") and ends: it returns, it finds no producer
\* ("unknown"), or an error leaves its producer ("throw").  `of` is the
\* position of the call event that an end belongs to.
Event(kind, reg, key, of) == [kind |-> kind, reg |-> reg, key |-> key, of |-> of]

Builder(d, e, c, th, tr) ==
    [defs |-> d, emitted |-> e, code |-> c, thrown |-> th, trace |-> tr]

PushCodeFront(codeSeq, code) == <<code>> \o codeSeq

\* this._defCode.push(code)
PushCode(codeSeq, code) == Append(codeSeq, code)

RECURSIVE require(_, _, _), callProducer(_, _)

\* A require that takes the key out of the emitted set again when its
\* producer fails.
requireForgetOnThrow(b, reg, key) ==
    LET at == Len(b.trace) + 1
        b0 == [b EXCEPT !.trace = Append(@, Event("call", reg, key, at))]
        callback == b0.defs[reg][key]
    IN  IF key \in b0.emitted[reg]
        THEN [b0 EXCEPT !.trace = Append(@, Event("return", reg, key, at))]
        ELSE IF callback = NoProducer
        THEN [b0 EXCEPT !.thrown = UnknownDef,
                        !.trace = Append(@, Event("unknown", reg, key, at))]
        ELSE LET b1 == [b0 EXCEPT !.emitted[reg] = @ \cup {key}]
                 b2 == callProducer(b1, callback.reqs)
             IN  IF b2.thrown # NoThrow
                 THEN [b2 EXCEPT !.emitted[reg] = @ \ {key},
                                 !.trace = Append(@, Event("throw", reg, key, at))]
                 ELSE [b2 EXCEPT
                          !.code[reg] = PushCode(@, Code(reg, key, callback)),
                          !.trace = Append(@, Event("return", reg, key, at))]

\* require(key) on the value registry, requireType(key) on the type
\* registry: the two methods differ in the registry only.
require(b, reg, key) ==
    LET at == Len(b.trace) + 1
        b0 == [b EXCEPT !.trace = Append(@, Event("call", reg, key, at))]
        callback == b0.defs[reg][key]
    IN  IF key \in b0.emitted[reg]
        THEN [b0 EXCEPT !.trace = Append(@, Event("return", reg, key, at))]
        ELSE IF callback = NoProducer
        THEN [b0 EXCEPT !.thrown = UnknownDef,
                        !.trace = Append(@, Event("unknown", reg, key, at))]
        ELSE LET b1 == [b0 EXCEPT !.emitted[reg] = @ \cup {key}]
                 b2 == callProducer(b1, callback.reqs)
             IN  IF b2.thrown # NoThrow
                 THEN [b2 EXCEPT !.trace = Append(@, Event("throw", reg, key, at))]
                 ELSE [b2 EXCEPT
                          !.code[reg] = PushCode(@, Code(reg, key, callback)),
                          !.trace = Append(@, Event("return", reg, key, at))]

\* callback(this): the producer's require calls, in order, up to the first
\* that throws.
callProducer(b, reqs) ==
    IF reqs = <<>> \/ b.thrown # NoThrow THEN b
    ELSE callProducer(require(b, reqs[1][1], reqs[1][2]), Tail(reqs))

MaxOps == 4

LastOp(op, reg, key, thrown) == [op |-> op, reg |-> reg, key |-> key, thrown |-> thrown]

NoOp == LastOp("none", "def", "A", NoThrow)

RegisterOverwrite(reg, key, callback) ==
    /\ nOps < MaxOps
    /\ nOps' = nOps + 1
    /\ lastOp' = LastOp("register", reg, key,
                        IF defs[reg][key] # NoProducer THEN DuplicateDef ELSE NoThrow)
    /\ defs' = [defs EXCEPT ![reg][key] = callback]
    /\ UNCHANGED <<emittedDefs, defCode, trace>>

\* registerDef / registerTypeDef
Register(reg, key, callback) ==
    /\ nOps < MaxOps
    /\ nOps' = nOps + 1
    /\ IF defs[reg][key] # NoProducer
       THEN /\ lastOp' = LastOp("register", reg, key, DuplicateDef)
            /\ UNCHANGED defs
       ELSE /\ lastOp' = LastOp("register", reg, key, NoThrow)
            /\ defs' = [defs EXCEPT ![reg][key] = callback]
    /\ UNCHANGED <<emittedDefs, defCode, trace>>

RegisterDef ==
    /\ \E key \in Keys, callback \in Producers : Register("def", key, callback)
    /\ UNCHANGED <<renderVars, schemaVars, runVars, importVars>>

RegisterTypeDef ==
    /\ \E key \in Keys, callback \in Producers : Register("type", key, callback)
    /\ UNCHANGED <<renderVars, schemaVars, runVars, importVars>>

\* A call of require or requireType from outside any producer.
RequireCall(reg, key) ==
    LET b == require(Builder(defs, emittedDefs, defCode, NoThrow, trace), reg, key)
    IN  /\ nOps < MaxOps
        /\ nOps' = nOps + 1
        /\ emittedDefs' = b.emitted
        /\ defCode' = b.code
        /\ trace' = b.trace
        /\ lastOp' = LastOp("require", reg, key, b.thrown)
        /\ UNCHANGED defs

Require ==
    /\ \E key \in Keys : RequireCall("def", key)
    /\ UNCHANGED <<renderVars, schemaVars, runVars, importVars>>

RequireType ==
    /\ \E key \in Keys : RequireCall("type", key)
    /\ UNCHANGED <<renderVars, schemaVars, runVars, importVars>>

NextMB == RegisterDef \/ RegisterTypeDef \/ Require \/ RequireType

(***************************************************************************)
(* Part 5: ModuleBuilder, the imports and toString.  A JavaScript Map is   *)
(* the sequence of its entries and a Set the sequence of its elements, in  *)
(* insertion order: that order is what iteration and a stable sort see.    *)
(***************************************************************************)
Entry(k, v) == [k |-> k, v |-> v]

MapHas(m, k) == \E i \in 1..Len(m) : m[i].k = k

MapGet(m, k) == m[CHOOSE i \in 1..Len(m) : m[i].k = k].v

MapSetKeepFirst(m, k, v) ==
    IF MapHas(m, k) THEN m ELSE Append(m, Entry(k, v))

\* Map.prototype.set: a new key goes last, a known key keeps its place.
MapSet(m, k, v) ==
    IF MapHas(m, k)
    THEN [i \in 1..Len(m) |-> IF m[i].k = k THEN Entry(k, v) ELSE m[i]]
    ELSE Append(m, Entry(k, v))

SetAddAgain(s, x) == Append(s, x)

\* Set.prototype.add
SetAdd(s, x) == IF \E i \in 1..Len(s) : s[i] = x THEN s ELSE Append(s, x)

\* addNamespaceImport and addDefaultImport, on their map
addBinding(m, identifier, from) == MapSet(m, from, identifier)

\* addNamedImport and addTypeImport, on their map
addToSet(m, identifier, from) ==
    MapSet(m, from, SetAdd(IF MapHas(m, from) THEN MapGet(m, from) ELSE <<>>,
                           identifier))

KeyedCaseSensitive(priority, name, v) == [p |-> priority, k |-> name, v |-> v]

\* An element with what sortBy compares: the priority, then the lower-cased
\* name.
Keyed(priority, name, v) == [p |-> priority, k |-> toLowerCase(name), v |-> v]

KeyLess(a, b) == a.p < b.p \/ (a.p = b.p /\ StrLess(a.k, b.k))

\* lodash sortBy with iteratees: stable, ties keep their order.
RECURSIVE InsertByKey(_, _)
InsertByKey(sorted, x) ==
    IF sorted = <<>> THEN <<x>>
    ELSE IF KeyLess(x, Head(sorted)) THEN <<x>> \o sorted
    ELSE <<Head(sorted)>> \o InsertByKey(Tail(sorted), x)

RECURSIVE sortByKey(_)
sortByKey(seq) ==
    IF seq = <<>> THEN <<>>
    ELSE InsertByKey(sortByKey(SubSeq(seq, 1, Len(seq) - 1)), seq[Len(seq)])

\* sortBy([...identifiers], [i => i.toLowerCase()])
sortIdentifiers(ids) ==
    LET sorted == sortByKey([i \in 1..Len(ids) |-> Keyed(0, ids[i], ids[i])])
    IN  [i \in 1..Len(sorted) |-> sorted[i].v]

\* JSON.stringify of a module path without characters to escape
JSONString(str) == "\"" \o str \o "\""

ImportLine(kind, from, ids, text) ==
    [kind |-> kind, from |-> from, ids |-> ids, text |-> text]

NamespaceLine(e) ==
    ImportLine("namespace", e.k, <<e.v>>,
               "import * as " \o e.v \o " from " \o JSONString(e.k))

NamedLine(e) ==
    ImportLine("named", e.k, sortIdentifiers(e.v),
               "import { " \o Join(sortIdentifiers(e.v), ", ") \o " } from "
                   \o JSONString(e.k))

DefaultLine(e) ==
    ImportLine("default", e.k, <<e.v>>,
               "import " \o e.v \o " from " \o JSONString(e.k))

TypeLine(e) ==
    ImportLine("type", e.k, sortIdentifiers(e.v),
               "import type { " \o Join(sortIdentifiers(e.v), ", ") \o " } from "
                   \o JSONString(e.k))

\* iterImports: the [priority, name, line] tuples in the order yielded
iterImports(ns, named, dflt, types) ==
    [i \in 1..Len(ns) |-> Keyed(0, ns[i].v, NamespaceLine(ns[i]))]
    \o [i \in 1..Len(named) |->
           Keyed(1, sortIdentifiers(named[i].v)[1], NamedLine(named[i]))]
    \o [i \in 1..Len(dflt) |-> Keyed(2, dflt[i].v, DefaultLine(dflt[i]))]
    \o [i \in 1..Len(types) |->
           Keyed(3, sortIdentifiers(types[i].v)[1], TypeLine(types[i]))]

\* toString: importLines
importLines(ns, named, dflt, types) ==
    LET sorted == sortByKey(iterImports(ns, named, dflt, types))
    IN  [i \in 1..Len(sorted) |-> sorted[i].v]

\* The text of a piece of code of a section.
CodeText(c) == c.by \o " " \o c.reg \o " " \o c.key

\* toString: the array that is joined with '\n'
toStringParts(header, lines, typeCode, code) ==
    <<header, "">>
        \o [i \in 1..Len(lines) |-> lines[i].text]
        \o <<"">>
        \o [i \in 1..Len(typeCode) |-> CodeText(typeCode[i]) \o "\n"]
        \o <<"">>
        \o [i \in 1..Len(code) |-> CodeText(code[i]) \o "\n"]

toString(header, lines, typeCode, code) ==
    Join(toStringParts(header, lines, typeCode, code), "\n")

Idents == {"a", "B", "b"}

\* The identifiers bound by namespace and default imports.
Bindings == {"a", "b"}

Modules == {"m", "n"}

MaxImports == 3

Import(kind, identifier, from) == [kind |-> kind, id |-> identifier, from |-> from]

NoImport == Import("none", "", "")

\* What every add*Import call does besides changing its own map.
Counted(kind, identifier, from) ==
    /\ nImports < MaxImports
    /\ nImports' = nImports + 1
    /\ imported' = imported \cup {Import(kind, identifier, from)}
    /\ lastImport' = Import(kind, identifier, from)
    /\ UNCHANGED headerComment

AddNamespaceImport ==
    /\ \E identifier \in Bindings, from \in Modules :
          /\ namespaceImports' = addBinding(namespaceImports, identifier, from)
          /\ Counted("namespace", identifier, from)
    /\ UNCHANGED <<defaultImports, namedImports, typeImports>>
    /\ UNCHANGED <<renderVars, schemaVars, runVars, mbVars>>

AddDefaultImport ==
    /\ \E identifier \in Bindings, from \in Modules :
          /\ defaultImports' = addBinding(defaultImports, identifier, from)
          /\ Counted("default", identifier, from)
    /\ UNCHANGED <<namespaceImports, namedImports, typeImports>>
    /\ UNCHANGED <<renderVars, schemaVars, runVars, mbVars>>

AddNamedImport ==
    /\ \E identifier \in Idents, from \in Modules :
          /\ namedImports' = addToSet(namedImports, identifier, from)
          /\ Counted("named", identifier, from)
    /\ UNCHANGED <<namespaceImports, defaultImports, typeImports>>
    /\ UNCHANGED <<renderVars, schemaVars, runVars, mbVars>>

AddTypeImport ==
    /\ \E identifier \in Idents, from \in Modules :
          /\ typeImports' = addToSet(typeImports, identifier, from)
          /\ Counted("type", identifier, from)
    /\ UNCHANGED <<namespaceImports, defaultImports, namedImports>>
    /\ UNCHANGED <<renderVars, schemaVars, runVars, mbVars>>

NextImports ==
    AddNamespaceImport \/ AddDefaultImport \/ AddNamedImport \/ AddTypeImport

\* The builder as the constructor leaves it.
NewBuilder ==
    Builder([reg \in Regs |-> [key \in Keys |-> NoProducer]],
            [reg \in Regs |-> {}], [reg \in Regs |-> <<>>], NoThrow, <<>>)

\* registerDef / registerTypeDef, as a function of the builder
register(b, reg, key, callback) ==
    IF b.defs[reg][key] # NoProducer THEN [b EXCEPT !.thrown = DuplicateDef]
    ELSE [b EXCEPT !.defs[reg][key] = callback]

\* emit(code) with a string: the code goes to the value section at once.
emit(b, text) ==
    [b EXCEPT !.code["def"] = PushCode(@, [reg |-> "def", key |-> "", by |-> text]),
              !.trace = Append(@, Event("emit", "def", text, Len(b.trace) + 1))]

DefCall(op, reg, key, callback) ==
    [op |-> op, reg |-> reg, key |-> key, callback |-> callback]

\* The builder after a sequence of calls.
RECURSIVE AfterCalls(_, _)
AfterCalls(b, calls) ==
    IF calls = <<>> THEN b
    ELSE LET c == Head(calls)
             b1 == CASE c.op = "register" -> register(b, c.reg, c.key, c.callback)
                     [] c.op = "require" -> require(b, c.reg, c.key)
                     [] OTHER -> emit(b, c.key)
         IN  AfterCalls(b1, Tail(calls))

Leaf == Producer("leaf", <<>>)

\* The calls that fill the definition sections of the module serialized:
\* a type required, code emitted, a key whose producer requires another key
\* that requires a type, and keys required again.
DefCallSequences ==
    { << DefCall("register", "def", "A", Producer("needsB", <<Call("def", "B")>>)),
         DefCall("register", "def", "B", Producer("needsTypeB", <<Call("type", "B")>>)),
         DefCall("register", "type", "B", Leaf),
         DefCall("register", "type", "A", Leaf),
         DefCall("require", "type", "A", Leaf),
         DefCall("emit", "def", "emitted", Leaf),
         DefCall("require", "def", "A", Leaf),
         DefCall("require", "def", "B", Leaf),
         DefCall("require", "type", "A", Leaf) >> }

(***************************************************************************)
(* The specifications.  Each part is checked on its own: its variables     *)
(* start from every input of the part, the other parts' variables rest.    *)
(***************************************************************************)
NoFiles == [p \in AllPaths |-> Absent]

InitRender ==
    /\ rNode \in TypeNodes
    /\ rPos = "none"
    /\ rOut = NoValue
    /\ dispatchers = TypeRefHandlers
    /\ schema = ImplicitTypes
    /\ sStep = "init"
    /\ typeIndex = NoIndex
    /\ shapeOf = ""
    /\ shape = NoShape
    /\ runSchema = ImplicitTypes
    /\ fs = NoFiles
    /\ dirs = {}
    /\ runNo = 0
    /\ status = "idle"
    /\ exitCode = -1
    /\ pending = [t \in Tasks(ImplicitTypes) |-> NotLaunched]
    /\ existed = {}
    /\ wlog = {}
    /\ clog = {}
    /\ error = NoError
    /\ prevFs = NoFiles
    /\ prevOk = FALSE
    /\ defs = [reg \in Regs |-> [key \in Keys |-> NoProducer]]
    /\ emittedDefs = [reg \in Regs |-> {}]
    /\ defCode = [reg \in Regs |-> <<>>]
    /\ trace = <<>>
    /\ lastOp = NoOp
    /\ nOps = 0
    /\ headerComment = ""
    /\ namespaceImports = <<>>
    /\ defaultImports = <<>>
    /\ namedImports = <<>>
    /\ typeImports = <<>>
    /\ imported = {}
    /\ lastImport = NoImport
    /\ nImports = 0

InitDispatch ==
    /\ rNode \in DispatchValues
    /\ rPos = "none"
    /\ rOut = NoValue
    /\ dispatchers \in SUBSET Handlers
    /\ schema = ImplicitTypes
    /\ sStep = "init"
    /\ typeIndex = NoIndex
    /\ shapeOf = ""
    /\ shape = NoShape
    /\ runSchema = ImplicitTypes
    /\ fs = NoFiles
    /\ dirs = {}
    /\ runNo = 0
    /\ status = "idle"
    /\ exitCode = -1
    /\ pending = [t \in Tasks(ImplicitTypes) |-> NotLaunched]
    /\ existed = {}
    /\ wlog = {}
    /\ clog = {}
    /\ error = NoError
    /\ prevFs = NoFiles
    /\ prevOk = FALSE
    /\ defs = [reg \in Regs |-> [key \in Keys |-> NoProducer]]
    /\ emittedDefs = [reg \in Regs |-> {}]
    /\ defCode = [reg \in Regs |-> <<>>]
    /\ trace = <<>>
    /\ lastOp = NoOp
    /\ nOps = 0
    /\ headerComment = ""
    /\ namespaceImports = <<>>
    /\ defaultImports = <<>>
    /\ namedImports = <<>>
    /\ typeImports = <<>>
    /\ imported = {}
    /\ lastImport = NoImport
    /\ nImports = 0

InitSchema ==
    /\ schema \in SchemaFamily
    /\ sStep = "init"
    /\ typeIndex = NoIndex
    /\ shapeOf = ""
    /\ shape = NoShape
    /\ rNode = IdleNode
    /\ rPos = "none"
    /\ rOut = NoValue
    /\ dispatchers = TypeRefHandlers
    /\ runSchema = ImplicitTypes
    /\ fs = NoFiles
    /\ dirs = {}
    /\ runNo = 0
    /\ status = "idle"
    /\ exitCode = -1
    /\ pending = [t \in Tasks(ImplicitTypes) |-> NotLaunched]
    /\ existed = {}
    /\ wlog = {}
    /\ clog = {}
    /\ error = NoError
    /\ prevFs = NoFiles
    /\ prevOk = FALSE
    /\ defs = [reg \in Regs |-> [key \in Keys |-> NoProducer]]
    /\ emittedDefs = [reg \in Regs |-> {}]
    /\ defCode = [reg \in Regs |-> <<>>]
    /\ trace = <<>>
    /\ lastOp = NoOp
    /\ nOps = 0
    /\ headerComment = ""
    /\ namespaceImports = <<>>
    /\ defaultImports = <<>>
    /\ namedImports = <<>>
    /\ typeImports = <<>>
    /\ imported = {}
    /\ lastImport = NoImport
    /\ nImports = 0

InitRun ==
    /\ \E sc \in Scenarios :
          /\ runSchema = sc.s
          /\ fs = InitialFiles(sc.scalar, sc.additive, sc.iface, sc.env)
          /\ dirs = sc.env.dirs \cup DirsOf(InitialFiles(sc.scalar, sc.additive,
                                                        sc.iface, sc.env))
    /\ runNo = 0
    /\ status = "idle"
    /\ exitCode = -1
    /\ pending = [t \in Tasks(runSchema) |-> NotLaunched]
    /\ existed = {}
    /\ wlog = {}
    /\ clog = {}
    /\ error = NoError
    /\ prevFs = fs
    /\ prevOk = FALSE
    /\ rNode = IdleNode
    /\ rPos = "none"
    /\ rOut = NoValue
    /\ dispatchers = TypeRefHandlers
    /\ schema = ImplicitTypes
    /\ sStep = "init"
    /\ typeIndex = NoIndex
    /\ shapeOf = ""
    /\ shape = NoShape
    /\ defs = [reg \in Regs |-> [key \in Keys |-> NoProducer]]
    /\ emittedDefs = [reg \in Regs |-> {}]
    /\ defCode = [reg \in Regs |-> <<>>]
    /\ trace = <<>>
    /\ lastOp = NoOp
    /\ nOps = 0
    /\ headerComment = ""
    /\ namespaceImports = <<>>
    /\ defaultImports = <<>>
    /\ namedImports = <<>>
    /\ typeImports = <<>>
    /\ imported = {}
    /\ lastImport = NoImport
    /\ nImports = 0

InitMB ==
    /\ defs = [reg \in Regs |-> [key \in Keys |-> NoProducer]]
    /\ emittedDefs = [reg \in Regs |-> {}]
    /\ defCode = [reg \in Regs |-> <<>>]
    /\ trace = <<>>
    /\ lastOp = NoOp
    /\ nOps = 0
    /\ headerComment = ""
    /\ namespaceImports = <<>>
    /\ defaultImports = <<>>
    /\ namedImports = <<>>
    /\ typeImports = <<>>
    /\ imported = {}
    /\ lastImport = NoImport
    /\ nImports = 0
    /\ rNode = IdleNode
    /\ rPos = "none"
    /\ rOut = NoValue
    /\ dispatchers = TypeRefHandlers
    /\ schema = ImplicitTypes
    /\ sStep = "init"
    /\ typeIndex = NoIndex
    /\ shapeOf = ""
    /\ shape = NoShape
    /\ runSchema = ImplicitTypes
    /\ fs = NoFiles
    /\ dirs = {}
    /\ runNo = 0
    /\ status = "idle"
    /\ exitCode = -1
    /\ pending = [t \in Tasks(ImplicitTypes) |-> NotLaunched]
    /\ existed = {}
    /\ wlog = {}
    /\ clog = {}
    /\ error = NoError
    /\ prevFs = NoFiles
    /\ prevOk = FALSE

InitImports ==
    /\ \E calls \in DefCallSequences :
          /\ defs = AfterCalls(NewBuilder, calls).defs
          /\ emittedDefs = AfterCalls(NewBuilder, calls).emitted
          /\ defCode = AfterCalls(NewBuilder, calls).code
          /\ trace = AfterCalls(NewBuilder, calls).trace
          /\ headerComment = IF calls = <<>> THEN "" ELSE FlowHeader
    /\ lastOp = NoOp
    /\ nOps = 0
    /\ namespaceImports = <<>>
    /\ defaultImports = <<>>
    /\ namedImports = <<>>
    /\ typeImports = <<>>
    /\ imported = {}
    /\ lastImport = NoImport
    /\ nImports = 0
    /\ rNode = IdleNode
    /\ rPos = "none"
    /\ rOut = NoValue
    /\ dispatchers = TypeRefHandlers
    /\ schema = ImplicitTypes
    /\ sStep = "init"
    /\ typeIndex = NoIndex
    /\ shapeOf = ""
    /\ shape = NoShape
    /\ runSchema = ImplicitTypes
    /\ fs = NoFiles
    /\ dirs = {}
    /\ runNo = 0
    /\ status = "idle"
    /\ exitCode = -1
    /\ pending = [t \in Tasks(ImplicitTypes) |-> NotLaunched]
    /\ existed = {}
    /\ wlog = {}
    /\ clog = {}
    /\ error = NoError
    /\ prevFs = NoFiles
    /\ prevOk = FALSE

SpecRender == InitRender /\ [][NextRender]_vars

SpecDispatch == InitDispatch /\ [][NextDispatch]_vars

SpecSchema == InitSchema /\ [][NextSchema]_vars

SpecRun == InitRun /\ [][NextRun]_vars

SpecMB == InitMB /\ [][NextMB]_vars

SpecImports == InitImports /\ [][NextImports]_vars


(***************************************************************************)
(* The claims.                                                             *)
(***************************************************************************)

\* C1: a node that is not a NonNull wrapper renders, in the output and in
\* the input position, as a string that ends with " | null".
C1_NullableEndsWithSuffix ==
    (rPos # "none" /\ rNode.kind # "NonNull")
        => (rOut.tag = "str" /\ EndsWith(rOut.val, NULL_SUFFIX))

\* The rendering of T by the renderer that rendered rNode.
RenderedBy(pos, node) ==
    IF pos = "out" THEN toFlowOutputTypeRef(node) ELSE toFlowInputTypeRef(node)

\* C2: NonNull(T) renders as the rendering of T without its trailing
\* " | null" when the rendering of T ends with it, and fails with the
\* malformed-nullable-expression error otherwise.
C2_NonNullStripsOrFails ==
    (rPos # "none" /\ rNode.kind = "NonNull")
        => LET inner == RenderedBy(rPos, rNode.ofType) IN
           IF inner.tag = "str" /\ EndsWith(inner.val, NULL_SUFFIX)
           THEN rOut.tag = "str" /\ rOut.val \o NULL_SUFFIX = inner.val
           ELSE rOut = Throw(MalformedNullableExpr)

\* The lines of a shape that define field f.
FieldLines(lines, f) ==
    {i \in 1..Len(lines) : StartsWith(lines[i], f \o ": Resolver<")}

\* Line j lies in the section that the provenance comment of iface opens.
InSectionOf(lines, iface, j) ==
    \E i \in 1..Len(lines) :
        /\ lines[i] = FromComment(iface)
        /\ i < j
        /\ \A k \in (i + 1)..j : ~StartsWith(lines[k], "// From ")

\* C3: in the resolver shape of an Object type, every field of every
\* implemented interface appears exactly once, in the section of that
\* interface, and an own field appears only if no interface emitted it.
C3_InterfaceFieldsOnce ==
    (sStep = "shape" /\ getType(schema, shapeOf).kind = "Object")
        => LET node == getType(schema, shapeOf) IN
           /\ shape.tag = "lines"
           /\ \A i \in 1..Len(node.interfaces) :
                \A f \in Range(getType(schema, node.interfaces[i]).fields) :
                    /\ Cardinality(FieldLines(shape.val, f.name)) = 1
                    /\ \A j \in FieldLines(shape.val, f.name) :
                           InSectionOf(shape.val, node.interfaces[i], j)
           /\ \A f \in Range(node.fields) :
                Cardinality(FieldLines(shape.val, f.name)) = 1

Ascending(seq) == \A i \in 1..(Len(seq) - 1) : StrLess(seq[i], seq[i + 1])

\* C4 as stated: the index holds the named types other than Query, Mutation
\* and the builtin scalars, in ascending order.
C4_IndexExcludesRoots ==
    sStep = "index"
        => /\ Range(typeIndex) =
                {n \in Range(TypeMapKeys(schema)) :
                    ~StartsWith(n, "__") /\ n \notin BUILTINS /\ n \notin ROOT_TYPES}
           /\ Ascending(typeIndex)

\* C4 as amended: the index holds every named type of the type map that is
\* neither an introspection type nor a builtin scalar, Query and Mutation
\* included, each once, in ascending code-unit order.  The index is thereby
\* a function of the set of type names alone.
C4_IndexSortedNonBuiltin ==
    sStep = "index"
        => /\ Range(typeIndex) =
                {n \in Range(TypeMapKeys(schema)) :
                    ~StartsWith(n, "__") /\ n \notin BUILTINS}
           /\ Ascending(typeIndex)

C4_Witness ==
    /\ sStep = "index"
    /\ {"Query", "Mutation", "index", "User"} \subseteq Range(typeIndex)
    /\ Len(typeIndex) = 10

(***************************************************************************)
(* The generator run.                                                      *)
(***************************************************************************)
OwnedPaths ==
    {Path("types", "index.js"), Path("scalars", "index.js"),
     Path("resolvers", "index.js")}

AdditivePaths == {Path("context", "index.js"), Path("models", "index.js")}

IsStubTask(t) == t[1] \in {"scalar", "interface", "resolver"}

HasTodo(items) == \E i \in 1..Len(items) : items[i].todo

\* The exports the specification requires of an existing stub.
RequiredExports(t) ==
    IF t[1] = "scalar" THEN {t[2], "serialize", "decoder"} ELSE {"dispatch"}

\* A scaffold file that exists and satisfies its contract when a run starts.
SatisfiedAtLaunch(t) ==
    /\ TargetPath(t) \in existed
    /\ CASE t[1] \in {"scalar", "interface"} ->
              RequiredExports(t) \subseteq getExportsFromAST(prevFs[TargetPath(t)].items)
         [] t = ContextTask ->
              {"Context", "makeContext"}
                  \subseteq getExportsFromAST(prevFs[TargetPath(t)].items)
         [] t = ModelsTask ->
              Range(ModelNames(runSchema))
                  \subseteq getExportsFromAST(prevFs[TargetPath(t)].items)
         [] OTHER -> TRUE

SecondRunEnded == status = "ended" /\ runNo = 2 /\ prevOk

\* C5: after the second of two completed runs on the same schema every
\* owned file has the content the first run left, and the second run wrote
\* no scaffold file that existed and satisfied its contract after the first.
C5_SecondRunChangesNothing ==
    SecondRunEnded
        => /\ \A p \in OwnedPaths : fs[p] = prevFs[p]
           /\ \A w \in wlog :
                (IsStubTask(w.task) \/ w.task \in {ContextTask, ModelsTask})
                    => ~SatisfiedAtLaunch(w.task)

\* C6 as stated: a per-type sub-task whose file exists writes nothing, and
\* one whose file does not exist writes a stub carrying a TODO marker.
C6_StubNotOverwrittenElseTodo ==
    \A t \in {u \in DOMAIN pending : IsStubTask(u)} :
        /\ TargetPath(t) \in existed => \A w \in wlog : w.task # t
        /\ \A w \in wlog : w.task = t => HasTodo(w.content)

\* C6 as amended: a per-type sub-task whose file exists writes nothing; one
\* whose file does not exist writes a stub, which carries a TODO marker when
\* it is a scalar or interface stub or the resolver stub of a root type with
\* fields of its own, and none when it is the resolver stub of another type.
C6_StubNotOverwrittenTodoOnRoots ==
    \A t \in {u \in DOMAIN pending : IsStubTask(u)} :
        /\ TargetPath(t) \in existed => \A w \in wlog : w.task # t
        /\ TargetPath(t) \notin existed /\ pending[t].op = "done"
              => \E w \in wlog : w.task = t
        /\ \A w \in wlog :
              w.task = t
                  => (HasTodo(w.content)
                        <=> (t[1] \in {"scalar", "interface"} \/ t[2] \in ROOT_TYPES))

C6_Witness ==
    /\ status = "ended"
    /\ Path("scalars", "Date.js") \in existed
    /\ fs[Path("scalars", "Date.js")] = prevFs[Path("scalars", "Date.js")]
    /\ \E w \in wlog : w.task = Task("resolver", "User") /\ ~HasTodo(w.content)
    /\ \E w \in wlog : w.task = Task("resolver", "Query") /\ HasTodo(w.content)
    /\ \E w \in wlog : w.task = Task("interface", "Node") /\ HasTodo(w.content)

\* C7: an existing scalar or interface stub that was read and lacks a
\* required export fails the run with exit status 1 and an error naming the
\* file and a missing symbol; one that has them all completes, and a run
\* completes only if every existing stub passed.
C7_ContractViolationFailsRun ==
    /\ \A c \in clog :
          IF RequiredExports(c.task) \subseteq c.exports
          THEN pending[c.task].op = "done"
          ELSE /\ status = "failed"
               /\ exitCode = 1
               /\ error.file = TargetPath(c.task)
               /\ error.symbol \in RequiredExports(c.task) \ c.exports
    /\ status = "ended"
          => \A t \in {u \in DOMAIN pending : u[1] \in {"scalar", "interface"}} :
                TargetPath(t) \in existed
                    => \E c \in clog :
                          c.task = t /\ RequiredExports(t) \subseteq c.exports

C7_Witness ==
    /\ status = "failed"
    /\ exitCode = 1
    /\ error = [file |-> Path("scalars", "Date.js"), symbol |-> "decoder"]
    /\ \E c \in clog : c.task = Task("scalar", "Date")
                          /\ c.exports = {"Date", "serialize"}

\* C8: what is written back to an existing additive scaffold is the prior
\* content, statement for statement as it was, followed only by declarations
\* of expected names the scanner did not report.
C8_AdditivePreservesVerbatim ==
    \A w \in wlog :
        w.task \in {ContextTask, ModelsTask} /\ w.path \in existed
            => /\ Len(w.content) > Len(w.orig)
               /\ SubSeq(w.content, 1, Len(w.orig)) = w.orig
               /\ \A i \in (Len(w.orig) + 1)..Len(w.content) :
                     /\ w.content[i].name \notin w.reported
                     /\ w.content[i].name \in
                           IF w.task = ContextTask THEN {"Context", "makeContext"}
                           ELSE Range(ModelNames(runSchema))

\* C9: a run that completed wrote every owned artifact, and a run that ended
\* with status 0 left in each the content generated from the schema.
C9_OwnedAlwaysWritten ==
    status = "ended"
        => /\ \A p \in OwnedPaths : \E w \in wlog : w.path = p
           /\ exitCode = 0
                 => /\ fs[Path("types", "index.js")] =
                          File(prettify(GenResolverTypes(runSchema)))
                    /\ fs[Path("scalars", "index.js")] =
                          File(prettify(GenScalarsIndex(runSchema)))
                    /\ fs[Path("resolvers", "index.js")] =
                          File(prettify(GenRootResolver(runSchema)))

(***************************************************************************)
(* The registry of definitions.                                            *)
(***************************************************************************)
\* The position in the trace of the end of the call at position i.
EndOf(i) == CHOOSE j \in 1..Len(trace) : trace[j].kind # "call" /\ trace[j].of = i

\* The require calls of a key that found it registered.
CallEvents(reg, key) ==
    {i \in 1..Len(trace) :
        /\ trace[i].kind = "call" /\ trace[i].reg = reg /\ trace[i].key = key
        /\ trace[EndOf(i)].kind # "unknown"}

\* The position in the trace of the first of them, and of its end.
FirstCall(reg, key) ==
    CHOOSE i \in CallEvents(reg, key) : \A j \in CallEvents(reg, key) : i <= j

FirstCallEnd(reg, key) == EndOf(FirstCall(reg, key))

Occurrences(reg, key) == {i \in 1..Len(defCode[reg]) : defCode[reg][i].key = key}

UnknownKeyFails ==
    lastOp.op = "require" /\ defs[lastOp.reg][lastOp.key] = NoProducer
        => lastOp.thrown = UnknownDef

\* C10 as stated: the output of every key required while registered is in
\* its section exactly once, the outputs are in the order of the keys'
\* first require calls, and require of an unregistered key fails with
\* UnknownDef.
C10_OnceInFirstRequireOrder ==
    /\ \A reg \in Regs :
          /\ \A key \in emittedDefs[reg] : Cardinality(Occurrences(reg, key)) = 1
          /\ \A i, j \in 1..Len(defCode[reg]) :
                i < j => FirstCall(reg, defCode[reg][i].key)
                            < FirstCall(reg, defCode[reg][j].key)
    /\ UnknownKeyFails

\* C10 as amended: the output of a key is in its section exactly once when
\* the key's first require call on a registered producer returned, and not
\* at all when that call ended in an error raised from inside the producer;
\* the outputs are in the order in which those first calls returned, so that
\* a key first required from inside another key's producer precedes it; and
\* require of an unregistered key fails with UnknownDef.
C10_OnceInCompletionOrder ==
    /\ \A reg \in Regs :
          /\ \A key \in emittedDefs[reg] :
                Cardinality(Occurrences(reg, key)) =
                    IF trace[FirstCallEnd(reg, key)].kind = "return" THEN 1 ELSE 0
          /\ \A i \in 1..Len(defCode[reg]) :
                /\ defCode[reg][i].key \in emittedDefs[reg]
                /\ defCode[reg][i].by = defs[reg][defCode[reg][i].key].name
          /\ \A i, j \in 1..Len(defCode[reg]) :
                i < j => FirstCallEnd(reg, defCode[reg][i].key)
                            < FirstCallEnd(reg, defCode[reg][j].key)
    /\ UnknownKeyFails

\* def A requires def B from inside its producer: B's output comes first,
\* and requiring B once more adds nothing.
C10_Witness ==
    /\ defs["def"]["A"] = Producer("needsB", <<Call("def", "B")>>)
    /\ defs["def"]["B"] = Producer("leaf", <<>>)
    /\ Len(defCode["def"]) = 2
    /\ defCode["def"][1].key = "B"
    /\ defCode["def"][2].key = "A"
    /\ Cardinality(CallEvents("def", "B")) = 2
    /\ FirstCall("def", "A") < FirstCall("def", "B")
    /\ lastOp = LastOp("require", "def", "B", NoThrow)

\* C11: registering a key that its registry already holds fails with
\* DuplicateDef and changes nothing: the producer bound to the key, the
\* emitted keys and the code of both sections stay as they were; registering
\* a key that is not yet registered does not fail and binds a producer.
C11_DuplicateDefLeavesModule ==
    [][ lastOp'.op = "register" /\ nOps' = nOps + 1
          => IF defs[lastOp'.reg][lastOp'.key] # NoProducer
             THEN /\ lastOp'.thrown = DuplicateDef
                  /\ defs' = defs
                  /\ defCode' = defCode
                  /\ emittedDefs' = emittedDefs
             ELSE /\ lastOp'.thrown = NoThrow
                  /\ defs'[lastOp'.reg][lastOp'.key] \in Producers
                  /\ defCode' = defCode ]_vars

\* A second registerTypeDef of a key whose output is already in the section.
C11_Witness ==
    /\ lastOp = LastOp("register", "type", "A", DuplicateDef)
    /\ defs["type"]["A"] \in Producers
    /\ Len(defCode["type"]) = 1
    /\ defCode["type"][1].by = defs["type"]["A"].name

(***************************************************************************)
(* The imports and the serialized module.                                  *)
(***************************************************************************)
CurrentImportLines ==
    importLines(namespaceImports, namedImports, defaultImports, typeImports)

LinesOf(lines, kind, from) ==
    {i \in 1..Len(lines) : lines[i].kind = kind /\ lines[i].from = from}

RegisteredIds(kind, from) ==
    {r.id : r \in {x \in imported : x.kind = kind /\ x.from = from}}

\* Not descending when compared without regard to case.
CaseInsensitivelySorted(ids) ==
    \A i, j \in 1..Len(ids) :
        i < j => ~StrLess(toLowerCase(ids[j]), toLowerCase(ids[i]))

\* C12: every identifier registered as a named or as a type-only import of a
\* module occurs exactly once in the output however often it was registered,
\* on the one line of its kind for that module, and the identifiers of that
\* line are sorted case-insensitively.
C12_NamedImportsOnceOnOneLine ==
    LET lines == CurrentImportLines IN
    \A kind \in {"named", "type"}, from \in Modules :
        RegisteredIds(kind, from) # {}
            => /\ Cardinality(LinesOf(lines, kind, from)) = 1
               /\ \A i \in LinesOf(lines, kind, from) :
                     LET ids == lines[i].ids IN
                     /\ Range(ids) = RegisteredIds(kind, from)
                     /\ Len(ids) = Cardinality(RegisteredIds(kind, from))
                     /\ CaseInsensitivelySorted(ids)
                     /\ lines[i].text =
                           (IF kind = "named" THEN "import { " ELSE "import type { ")
                               \o Join(ids, ", ") \o " } from \"" \o from \o "\""

\* B and a registered for one module, a twice.
C12_Witness ==
    /\ nImports = 3
    /\ RegisteredIds("named", "m") = {"a", "B"}
    /\ \E i \in LinesOf(CurrentImportLines, "named", "m") :
          CurrentImportLines[i].text = "import { a, B } from \"m\""

\* C15: a module has at most one namespace import line and at most one
\* default import line, and after addNamespaceImport its namespace line
\* binds the identifier of that call.
C15_OneBindingLastWins ==
    LET lines == CurrentImportLines IN
    /\ \A from \in Modules :
          /\ Cardinality(LinesOf(lines, "namespace", from)) <= 1
          /\ Cardinality(LinesOf(lines, "default", from)) <= 1
    /\ lastImport.kind = "namespace"
          => \E i \in LinesOf(lines, "namespace", lastImport.from) :
                /\ lines[i].ids = <<lastImport.id>>
                /\ lines[i].text =
                      "import * as " \o lastImport.id \o " from \""
                          \o lastImport.from \o "\""

\* The namespace of m was bound to a and then to b.
C15_Witness ==
    /\ {Import("namespace", "a", "m"), Import("namespace", "b", "m")}
          \subseteq imported
    /\ lastImport = Import("namespace", "b", "m")
    /\ Cardinality(LinesOf(CurrentImportLines, "namespace", "m")) = 1

\* The array toString joins, for the module as it is.
CurrentParts ==
    toStringParts(headerComment, CurrentImportLines, defCode["type"], defCode["def"])

Priority(kind) ==
    CASE kind = "namespace" -> 0 [] kind = "named" -> 1
      [] kind = "default" -> 2 [] OTHER -> 3

\* One line for every module with a registration of the kind, the groups
\* in the order namespace, named, default, type-only, and each group not
\* descending in its lines' leading identifiers compared without regard to
\* case.
ImportSectionOrdered(lines) ==
    /\ \A kind \in {"namespace", "named", "default", "type"}, from \in Modules :
          Cardinality(LinesOf(lines, kind, from)) =
              IF RegisteredIds(kind, from) = {} THEN 0 ELSE 1
    /\ \A i, j \in 1..Len(lines) :
          i < j => /\ Priority(lines[i].kind) <= Priority(lines[j].kind)
                   /\ lines[i].kind = lines[j].kind
                         => ~StrLess(toLowerCase(lines[j].ids[1]),
                                     toLowerCase(lines[i].ids[1]))

\* The positions in the trace where an output of the section begins (the
\* first require call of a key that returned, or an emit) and where it is
\* complete (the return of that call, or the emit).
OutputStarts(reg) ==
    {i \in 1..Len(trace) :
        \/ trace[i].kind = "emit" /\ trace[i].reg = reg
        \/ /\ trace[i].kind = "call" /\ trace[i].reg = reg
           /\ i \in CallEvents(reg, trace[i].key)
           /\ i = FirstCall(reg, trace[i].key)
           /\ trace[EndOf(i)].kind = "return"}

OutputEnds(reg) ==
    {IF trace[i].kind = "emit" THEN i ELSE EndOf(i) : i \in OutputStarts(reg)}

\* The element of the section that the event at a position of the trace
\* accounts for.
OutputAt(reg, i) ==
    (IF trace[i].kind = "emit"
     THEN CodeText([reg |-> reg, key |-> "", by |-> trace[i].key])
     ELSE CodeText(Code(reg, trace[i].key, defs[reg][trace[i].key]))) \o "\n"

\* The outputs for a set of positions, in the order of the positions.
OutputsInOrder(reg, at) ==
    [k \in 1..Cardinality(at) |->
        OutputAt(reg, CHOOSE i \in at : Cardinality({j \in at : j < i}) = k - 1)]

Layout(parts, lines, typeSection, defSection) ==
    parts = <<headerComment, "">> \o [i \in 1..Len(lines) |-> lines[i].text]
                \o <<"">> \o typeSection \o <<"">> \o defSection

RECURSIVE InFixedOrder(_)
InFixedOrder(regs) ==
    IF regs = {} THEN <<>>
    ELSE LET r == CHOOSE x \in regs : TRUE
         IN  <<r>> \o InFixedOrder(regs \ {r})

\* The four maps after a sequence of add*Import calls on a new builder.
RECURSIVE AfterImports(_, _)
AfterImports(maps, calls) ==
    IF calls = <<>> THEN maps
    ELSE LET c == Head(calls)
             next ==
                 CASE c.kind = "namespace" ->
                        [maps EXCEPT !.ns = addBinding(@, c.id, c.from)]
                   [] c.kind = "default" ->
                        [maps EXCEPT !.dflt = addBinding(@, c.id, c.from)]
                   [] c.kind = "named" ->
                        [maps EXCEPT !.named = addToSet(@, c.id, c.from)]
                   [] OTHER ->
                        [maps EXCEPT !.types = addToSet(@, c.id, c.from)]
         IN  AfterImports(next, Tail(calls))

NoImports == [ns |-> <<>>, named |-> <<>>, dflt |-> <<>>, types |-> <<>>]

ImportSection(lines) == [i \in 1..Len(lines) |-> lines[i].text]

ImportSectionOf(calls) ==
    LET maps == AfterImports(NoImports, calls)
    IN  ImportSection(importLines(maps.ns, maps.named, maps.dflt, maps.types))

\* C14: the import section depends only on the set of registrations made:
\* it is the one that the same registrations give when each is made once,
\* in one fixed order.
C14_ImportsOrderIndependent ==
    ImportSection(CurrentImportLines) = ImportSectionOf(InFixedOrder(imported))

\* Two registrations bind the namespace or the default import of one module
\* to different identifiers.
Rebound ==
    \E r, q \in imported :
        /\ r.kind \in {"namespace", "default"}
        /\ q.kind = r.kind /\ q.from = r.from /\ q.id # r.id

\* Two identifiers registered for one kind are equal without regard to case.
CaseTie ==
    \E r, q \in imported :
        /\ r.kind = q.kind /\ r.id # q.id
        /\ toLowerCase(r.id) = toLowerCase(q.id)

\* Two lines of one group have the same leading identifier.
LeadTie ==
    \E i, j \in 1..Len(CurrentImportLines) :
        /\ i # j
        /\ CurrentImportLines[i].kind = CurrentImportLines[j].kind
        /\ toLowerCase(CurrentImportLines[i].ids[1])
              = toLowerCase(CurrentImportLines[j].ids[1])

\* Without rebinding and without ties the section depends only on the set.
OrderIndependentWithoutTies ==
    ~Rebound /\ ~CaseTie /\ ~LeadTie => C14_ImportsOrderIndependent

\* Without rebinding alone it does not: registrations that tie keep the order
\* in which they were made.
OrderIndependentWithoutRebinding ==
    ~Rebound => C14_ImportsOrderIndependent

(***************************************************************************)
(* The dispatch functions.                                                 *)
(***************************************************************************)
\* The handler for a variant in output and in input position, "" when the
\* function has none for it.
OutputHandlerOf(kind) ==
    CASE kind = "Scalar" -> "onScalar" [] kind = "NonNull" -> "onNonNull"
      [] kind = "Object" -> "onObject" [] kind = "List" -> "onList"
      [] kind = "Enum" -> "onEnum" [] kind = "Interface" -> "onInterface"
      [] kind = "Union" -> "onUnion" [] OTHER -> ""

InputHandlerOf(kind) ==
    CASE kind = "Scalar" -> "onScalar" [] kind = "NonNull" -> "onNonNull"
      [] kind = "InputObject" -> "onObject" [] kind = "List" -> "onList"
      [] kind = "Enum" -> "onEnum" [] OTHER -> ""

\* The call was made with no handler for the value's variant and no default.
Unhandled ==
    /\ rPos \in {"odispatch", "idispatch"}
    /\ "default" \notin dispatchers
    /\ (IF rPos = "odispatch" THEN OutputHandlerOf(rNode.kind)
        ELSE InputHandlerOf(rNode.kind)) \notin dispatchers

FailsNamingNode ==
    /\ rOut.tag = "throw"
    /\ StartsWith(rOut.val, UnhandledVariant \o " of type \"" \o StringOf(rNode) \o "\"")

\* C16: odispatch and idispatch, called with no handler for the value's
\* variant and no default handler, fail with the UnhandledVariant error
\* that names the value.
C16_UnhandledVariantFails ==
    Unhandled => FailsNamingNode

\* The same of odispatch alone.
OdispatchUnhandledVariantFails ==
    Unhandled /\ rPos = "odispatch" => FailsNamingNode

\* With a handler for the variant or a default, a handler is called.
HandledIsRouted ==
    rPos \in {"odispatch", "idispatch"} /\ ~Unhandled => rOut.tag = "handler"

(***************************************************************************)
(* The resolver signatures.                                                *)
(***************************************************************************)
\* A text without its spaces: what is left of it whatever the layout; every
\* file is formatted (prettify) before it is written.
RECURSIVE NoSpaces(_)
NoSpaces(s) ==
    IF Len(s) = 0 THEN ""
    ELSE (IF SubSeq(s, 1, 1) = " " THEN "" ELSE SubSeq(s, 1, 1))
             \o NoSpaces(SubSeq(s, 2, Len(s)))

SameUpToLayout(a, b) == NoSpaces(a) = NoSpaces(b)

\* The signature of a declaration of a field in the shape of the type named
\* parentName: Resolver<Parent, Output> or Resolver<Parent, Output, Args>.
ArgsRecord(args) ==
    "{| " \o Join([i \in 1..Len(args) |->
                      "+" \o args[i].name \o ": "
                          \o ToStr(toFlowInputTypeRef(args[i].type))], ", ")
          \o " |}"

SignatureLine(parentName, f) ==
    f.name \o ": Resolver<"
        \o (IF parentName \in {"Query", "Mutation"} THEN "null" ELSE parentName)
        \o ", " \o ToStr(toFlowOutputTypeRef(f.type))
        \o (IF Len(f.args) = 0 THEN "" ELSE ", " \o ArgsRecord(f.args))
        \o ">,"

\* The declarations of the interfaces a type implements.
InheritedFields(s, node) ==
    UNION {Range(getType(s, node.interfaces[i]).fields) :
              i \in 1..Len(node.interfaces)}

\* The shape of an Object type has been synthesized.
ObjectShaped ==
    /\ sStep = "shape"
    /\ getType(schema, shapeOf).kind = "Object"
    /\ shape.tag = "lines"

\* C17 as stated: the signature emitted for every field of an Object type is
\* Resolver<Parent, Output> or, with arguments, Resolver<Parent, Output,
\* Args>, Parent null exactly for Query and Mutation, Output the rendering
\* of the field's type, Args one required entry per argument.
C17_SignatureOfEveryField ==
    ObjectShaped
        => LET node == getType(schema, shapeOf) IN
           \A f \in Range(node.fields) :
               /\ FieldLines(shape.val, f.name) # {}
               /\ \A i \in FieldLines(shape.val, f.name) :
                     SameUpToLayout(shape.val[i], SignatureLine(node.name, f))

\* What holds instead: every field of an Object type and of the interfaces
\* it implements has a signature in the shape; the signature of a field that
\* an implemented interface declares is built from the interface's
\* declaration of it, that of any other field from the type's own.
SignatureOfDeclarationUsed ==
    ObjectShaped
        => LET node == getType(schema, shapeOf)
               inherited == InheritedFields(schema, node)
               own == {f \in Range(node.fields) :
                          \A g \in inherited : g.name # f.name}
           IN  /\ \A f \in inherited \cup own : FieldLines(shape.val, f.name) # {}
               /\ \A i \in 1..Len(shape.val) :
                     (\E k \in 1..(Len(shape.val[i]) - 10) :
                          SubSeq(shape.val[i], k, k + 10) = ": Resolver<")
                         => \E f \in inherited \cup own :
                               /\ i \in FieldLines(shape.val, f.name)
                               /\ SameUpToLayout(shape.val[i],
                                                 SignatureLine(node.name, f))


(***************************************************************************)
(* The aliases of the interfaces and unions.                               *)
(***************************************************************************)
\* The concrete subtypes of an Interface or Union, as a set.
ConcreteSubtypes(s, name) ==
    IF getType(s, name).kind = "Union"
    THEN Range(getType(s, name).members)
    ELSE {s[i].name : i \in {j \in 1..Len(s) :
                                /\ s[j].kind = "Object"
                                /\ name \in Range(s[j].interfaces)}}

\* The names of a set in the order of the canonical type index.
InIndexOrder(s, names) ==
    LET In(n) == n \in names IN SelectSeq(namedTypesFromSchema(s), In)

Quoted(names) == [i \in 1..Len(names) |-> "\"" \o names[i] \o "\""]

AliasesList(s, name, members) ==
    shape.val = << "export type " \o name \o " = " \o Join(members, " | ") \o ";",
                   "export type " \o name \o "$typename = "
                       \o Join(Quoted(members), " | ") \o ";" >>

\* C18: the alias of an Interface or Union and the alias of its type names
\* list the same concrete subtypes (the members of a Union, the Object types
\* that implement an Interface), both in the order of the canonical index.
C18_AliasesInIndexOrder ==
    sStep = "aliases"
        => AliasesList(schema, shapeOf,
                       InIndexOrder(schema, ConcreteSubtypes(schema, shapeOf)))

\* The same of the interfaces alone.
InterfaceAliasesInIndexOrder ==
    sStep = "aliases" /\ getType(schema, shapeOf).kind = "Interface"
        => AliasesList(schema, shapeOf,
                       InIndexOrder(schema, ConcreteSubtypes(schema, shapeOf)))

\* The two aliases of a Union list its members in the order of declaration.
UnionAliasesInDeclarationOrder ==
    sStep = "aliases" /\ getType(schema, shapeOf).kind = "Union"
        => AliasesList(schema, shapeOf, getType(schema, shapeOf).members)

(***************************************************************************)
(* The rendering of lists.                                                 *)
(***************************************************************************)
\* A List node has been rendered.
ListRendered == rPos \in {"out", "in"} /\ rNode.kind = "List"

\* C19 as stated: a List node with inner node X renders, in both positions,
\* as "List<" + render(X) + "> | null".
C19_ListRendersAsList ==
    ListRendered
        => rOut = Str("List<" \o ToStr(RenderedBy(rPos, rNode.ofType)) \o "> | null")

\* C19, amended: a List node with inner node X renders, in both positions,
\* as "Array<" + render(X) + "> | null", and fails with the error of
\* rendering X when that fails.
C19_ListRendersAsArray ==
    ListRendered
        => LET inner == RenderedBy(rPos, rNode.ofType) IN
           IF inner.tag = "throw" THEN rOut = inner
           ELSE rOut = Str("Array<" \o ToStr(inner) \o "> | null")

\* A list of non-null users, in input position.
C19_Witness ==
    /\ rPos = "in"
    /\ rNode = ListOf(NonNullOf(Named("Object", "User")))
    /\ rOut = Str("Array<User> | null")

(***************************************************************************)
(* The files nobody generated.                                             *)
(***************************************************************************)
Categories == {ScalarsTask, InterfacesTask, ResolversTask}

\* A file of the category's directory that matches the category's pattern
\* and is not a file that the run intended to produce.
Orphans(t) ==
    {p \in AllPaths :
        /\ fs[p].exists
        /\ p[1] = TargetPath(t)[1]
        /\ MatchesPattern(t, p[2])
        /\ \A u \in SubTasks(DOMAIN pending, t) : TargetPath(u) # p}

\* Every task of the run has finished.
AllTasksDone == \A t \in DOMAIN pending : pending[t].op = "done"

\* C20: when all tasks of a run have finished, a category whose directory
\* holds a matching file that the run did not intend has the result false
\* and the exit status is not 0; without such a file in any category the
\* exit status is 0.  A run that exits for such a file has finished all its
\* tasks.
C20_OrphanFailsCategory ==
    status = "ended"
        => /\ AllTasksDone
           /\ \A t \in Categories :
                 Orphans(t) # {} => pending[t].result = FALSE /\ exitCode # 0
           /\ (\A t \in Categories : Orphans(t) = {}) => exitCode = 0

\* The same with the scalar implementations left out.
OrphanFailsOtherCategories ==
    status = "ended"
        => /\ AllTasksDone
           /\ \A t \in Categories \ {ScalarsTask} :
                 Orphans(t) # {} => pending[t].result = FALSE /\ exitCode # 0
           /\ (\A t \in Categories \ {ScalarsTask} : Orphans(t) = {}) => exitCode = 0

\* A run ended with status 0 on a scalars directory with an orphan.
ScalarOrphanGoesUnnoticed ==
    status = "ended" /\ Orphans(ScalarsTask) # {} /\ exitCode = 0

(***************************************************************************)
(* A task that throws.                                                     *)
(***************************************************************************)
\* The step in which a task of the run throws.
Throws == error' # error /\ error' # NoError

\* C21: the step in which a task throws ends the run with exit status 1
\* while the other tasks are left as they are, unfinished; it changes no
\* file; and after it nothing is run again and no file changes.
C21_ThrowAbortsWithoutRollback ==
    [][ /\ Throws => /\ status = "running" /\ status' = "failed"
                     /\ exitCode' = 1
                     /\ fs' = fs /\ dirs' = dirs /\ wlog' = wlog
                     /\ \A t \in DOMAIN pending :
                           pending'[t] =
                               IF pending[t].op = "done" THEN pending[t] ELSE Aborted
        /\ status = "failed" => UNCHANGED vars ]_vars

\* A run aborted by a stub without its decoder after files were written,
\* with writes of other tasks still pending: the written files are there.
C21_Witness ==
    /\ status = "failed"
    /\ exitCode = 1
    /\ error.symbol = "decoder"
    /\ Cardinality(wlog) >= 2
    /\ \A w \in wlog : fs[w.path] = File(w.content)
    /\ \E t \in DOMAIN pending : pending[t] = Aborted
    /\ \E t \in TopTasks : pending[t].op = "done"

(***************************************************************************)
(* The paths of the tasks.                                                 *)
(***************************************************************************)
\* The tasks of the run that target a file; the three others list a
\* directory.
FileTasks ==
    {t \in DOMAIN pending : t \notin {ScalarsTask, InterfacesTask, ResolversTask}}

\* C22: no two tasks launched by one run target the same file, and no file
\* is written by two tasks of one run.
C22_TargetPathsDisjoint ==
    runNo > 0
        => /\ \A t, u \in FileTasks : t # u => TargetPath(t) # TargetPath(u)
           /\ \A w, x \in wlog : w.path = x.path => w.task = x.task

\* The same of the schemas without a scalar named index.
TargetPathsDisjointWithoutIndexScalar ==
    (runNo > 0 /\ Task("scalar", "index") \notin DOMAIN pending)
        => /\ \A t, u \in FileTasks : t # u => TargetPath(t) # TargetPath(u)
           /\ \A w, x \in wlog : w.path = x.path => w.task = x.task

(***************************************************************************)
(* The input types.                                                        *)
(***************************************************************************)
\* The lines of the record alias of an InputObject type: one required entry
\* per field, in the order of the declaration.
RecordAlias(node) ==
    <<"type " \o node.name \o " = {|">>
        \o [i \in 1..Len(node.fields) |->
               "+" \o node.fields[i].name \o ": "
                   \o ToStr(toFlowInputTypeRef(node.fields[i].type)) \o ","]
        \o <<"|};">>

\* The positions where the lines occur, one after the other.
OccursAt(lines, part) ==
    {k \in 0..(Len(lines) - Len(part)) :
        SubSeq(lines, k + 1, k + Len(part)) = part}

\* C23: the type definitions hold one record alias for every InputObject
\* type, with one required entry per field in declaration order, each type
\* rendered in input position, and no resolver shape for the type.
C23_InputObjectRecordOnly ==
    (sStep = "typeDefs" /\ shape.tag = "lines")
        => \A i \in 1..Len(schema) :
              schema[i].kind = "InputObject"
                  => /\ Cardinality(OccursAt(shape.val, RecordAlias(schema[i]))) = 1
                     /\ Cardinality({k \in 1..Len(shape.val) :
                            StartsWith(shape.val[k],
                                       "type " \o schema[i].name \o " =")}) = 1
                     /\ \A k \in 1..Len(shape.val) :
                            ~StartsWith(shape.val[k],
                                        "export type " \o schema[i].name \o "Resolver")

\* The definitions of a schema with Mutation: the record of UserInput, and
\* the shape of Mutation whose field takes a UserInput.
C23_Witness ==
    /\ sStep = "typeDefs"
    /\ shape.tag = "lines"
    /\ SubSeq(shape.val, 1, 5) =
          << "type UserInput = {|", "+name: string | null,",
             "+email: string | null,", "|};", "" >>
    /\ \E k \in 1..Len(shape.val) : shape.val[k] = "export type MutationResolver = {|"

(***************************************************************************)
(* Re-entrant require calls.                                               *)
(***************************************************************************)
\* The calls of a key's producer that ended in an error.
ThrowEnded(reg, key) ==
    {i \in 1..Len(trace) :
        /\ trace[i].kind = "call" /\ trace[i].reg = reg /\ trace[i].key = key
        /\ trace[EndOf(i)].kind = "throw"}

\* A producer that was called either failed or left its code in the section.
Invocations(reg, key) ==
    Cardinality(ThrowEnded(reg, key)) + Cardinality(Occurrences(reg, key))

Ends(i) == {j \in 1..Len(trace) : trace[j].kind # "call" /\ trace[j].of = i}

\* The call at q is made while the call at p of the same key is running.
ReEntrant(p, q) ==
    /\ trace[p].kind = "call" /\ trace[q].kind = "call"
    /\ trace[p].reg = trace[q].reg /\ trace[p].key = trace[q].key
    /\ p < q /\ q < EndOf(p)

\* C24: over the life of a builder the producer of each key of each registry
\* is called at most once; every require and requireType call ends, also
\* when producers require each other in a cycle or require their own key;
\* and a call of a key made while that key's producer is running returns at
\* once, without an error and without a further call.
C24_ProducerAtMostOnce ==
    /\ \A reg \in Regs, key \in Keys : Invocations(reg, key) <= 1
    /\ \A i \in 1..Len(trace) :
          trace[i].kind = "call"
              => /\ Cardinality(Ends(i)) = 1
                 /\ EndOf(i) > i
    /\ \A p, q \in 1..Len(trace) :
          ReEntrant(p, q) => EndOf(q) = q + 1 /\ trace[q + 1].kind = "return"

\* def A's producer requires def B and def B's requires def A: require of A
\* runs both producers once, the inner require of A returning at once.
C24_Witness ==
    /\ defs["def"]["A"] = Producer("needsB", <<Call("def", "B")>>)
    /\ defs["def"]["B"] = Producer("needsA", <<Call("def", "A")>>)
    /\ lastOp = LastOp("require", "def", "A", NoThrow)
    /\ Len(trace) = 6
    /\ ReEntrant(1, 3)
    /\ EndOf(3) = 4 /\ EndOf(2) = 5 /\ EndOf(1) = 6
    /\ Invocations("def", "A") = 1 /\ Invocations("def", "B") = 1

\* A producer that requires its own key.
C24_SelfRequire ==
    /\ defs["type"]["B"] = Producer("needsTypeB", <<Call("type", "B")>>)
    /\ lastOp = LastOp("require", "type", "B", NoThrow)
    /\ ReEntrant(1, 2)
    /\ Invocations("type", "B") = 1

=============================================================================
